---- MODULE Spec2Model ----
(***************************************************************************)
(* Model of the narrative-points ledger of mynfini                         *)
(* (mynfini/narrative_points_system_complete.py, class                     *)
(* NarrativePointsSystem).                                                 *)
(*                                                                         *)
(* The ledger keeps four dictionaries keyed by character id.  They are     *)
(* Python defaultdicts: a subscript read of a missing key inserts the      *)
(* default, a .get() read does not.  Each is modelled as a function whose  *)
(* DOMAIN is the dictionary's key set.                                     *)
(*                                                                         *)
(* Floats are scaled by ten: the pressure 0.7 is the integer 7.            *)
(* An NPTransaction keeps the fields the ledger interprets (trigger,       *)
(* activity, amount, balance_after, character_id); its uuid, timestamp,    *)
(* description and scene_context are opaque to every operation modelled.   *)
(*                                                                         *)
(* The save system (mynfini/game_state_manager.py) and the orchestrator    *)
(* fields it saves are modelled further down, under SpecSave.              *)
(***************************************************************************)
EXTENDS Integers, Sequences, FiniteSets, TLC

VARIABLES
    player_balances,        \* self.player_balances        defaultdict(int)
    transaction_history,    \* self.transaction_history    defaultdict(list)
    earnings_this_session,  \* self.earnings_this_session  defaultdict(int)
    spending_this_session,  \* self.spending_this_session  defaultdict(int)
    current_scene_points,   \* self.current_scene_points
    last,                   \* the latest completed sequential call and what it returned
    pc,                     \* per request thread: the line of earn/spend it is at
    frame,                  \* per request thread: the local variables of its call
    current_step,           \* orchestrator.current_step
    narrative_points,       \* orchestrator.narrative_points
    cbx_total,              \* orchestrator.cbx_total
    scene_history,          \* orchestrator.scene_history      list
    character_arcs,         \* orchestrator.character_arcs     dict of lists
    narrative_threads,      \* orchestrator.narrative_threads  list
    creativity_history,     \* orchestrator.creativity_history a list, or a dict once restored
    user_state,             \* orchestrator.user_state         dict
    save_string,            \* the base64 save text last exported (<<>>: none yet)
    exported,               \* the orchestrator's fields as they were at that export
    active_clocks,          \* clock system: self.active_clocks     dict by clock id
    completed_clocks,       \* clock system: self.completed_clocks  dict by clock id
    global_opportunities,   \* clock system: self.global_opportunities  deque(maxlen=10)
    system_status           \* clock system: self.system_status (the two clock totals)

ledger == <<player_balances, transaction_history, earnings_this_session,
            spending_this_session, current_scene_points>>
threads == <<pc, frame>>
orchestrator == <<current_step, narrative_points, cbx_total, scene_history,
                  character_arcs, narrative_threads, creativity_history, user_state>>
save == <<save_string, exported>>
clocks == <<active_clocks, completed_clocks, global_opportunities, system_status>>
vars == <<player_balances, transaction_history, earnings_this_session,
          spending_this_session, current_scene_points, last, pc, frame,
          current_step, narrative_points, cbx_total, scene_history,
          character_arcs, narrative_threads, creativity_history, user_state,
          save_string, exported,
          active_clocks, completed_clocks, global_opportunities, system_status>>

(***************************************************************************)
(* Bounds of the model.                                                    *)
(***************************************************************************)
\* Most transactions recorded over all accounts in one run.
MaxTx == 3

\* Most scenes the progress of the test is written for in one run.
MaxGame == 2

\* Most points of a total that are followed being spent, and the largest
\* total a loaded game brings.
MaxPoints == 6

\* Most clocks created in one run.
MaxClocks == 2

(***************************************************************************)
(* Enumerations and rate tables.                                           *)
(***************************************************************************)
None == "<None>"

NPEarningTrigger ==
    {"risk_taking", "roleplaying_depth", "emotional_investment",
     "story_advancement", "character_growth", "sacrificial_choice",
     "creative_problem_solving", "dramatic_timing", "relationship_development"}

NPActivity ==
    {"retcon_scene", "introduce_element", "empower_character",
     "narrative_escape", "dramatic_reveal", "character_retcon",
     "environment_manipulation", "foreshadowing"}

earning_rates ==
    [t \in NPEarningTrigger |->
        CASE t = "risk_taking"              -> 2
          [] t = "roleplaying_depth"        -> 3
          [] t = "emotional_investment"     -> 2
          [] t = "story_advancement"        -> 1
          [] t = "character_growth"         -> 2
          [] t = "sacrificial_choice"       -> 4
          [] t = "creative_problem_solving" -> 2
          [] t = "dramatic_timing"          -> 1
          [] t = "relationship_development" -> 1]

activity_costs ==
    [a \in NPActivity |->
        CASE a = "retcon_scene"             -> 5
          [] a = "introduce_element"        -> 3
          [] a = "empower_character"        -> 4
          [] a = "narrative_escape"         -> 6
          [] a = "dramatic_reveal"          -> 2
          [] a = "character_retcon"         -> 8
          [] a = "environment_manipulation" -> 3
          [] a = "foreshadowing"            -> 2]

(***************************************************************************)
(* Inputs the calls are drawn from.  A value outside the enumeration       *)
(* stands for any object a caller may pass that is no member of it.        *)
(***************************************************************************)
TriggerInputs == {"risk_taking", "sacrificial_choice", "bogus_trigger"}
ActivityInputs == {"introduce_element", "foreshadowing", "bogus_activity"}
\* "" is the empty string, None the omitted argument.
CharacterIdInputs == {"alice", "session_general", "", None}

(***************************************************************************)
(* Python dictionary primitives.                                           *)
(***************************************************************************)
\* d.get(k, default): no insertion.
DictGet(d, k, default) == IF k \in DOMAIN d THEN d[k] ELSE default

\* d[k] = v
DictSet(d, k, v) == [x \in (DOMAIN d) \cup {k} |-> IF x = k THEN v ELSE d[x]]

\* d[k] on a defaultdict: the dictionary after the read (key inserted if missing).
DefaultTouch(d, k, default) == IF k \in DOMAIN d THEN d ELSE DictSet(d, k, default)

EmptyDict == [x \in {} |-> 0]

\* bool(character_id)
Truthy(character_id) == character_id /= None /\ character_id /= ""

(***************************************************************************)
(* Request threads of the web server (the second specification, SpecConc). *)
(***************************************************************************)
Threads == {1, 2}

IdleFrame == [op |-> None, arg |-> None, character_id |-> None,
              amount |-> 0, tmp |-> 0, balance_after |-> 0, ret |-> None,
              seen |-> <<>>]

(***************************************************************************)
(* NPTransaction(...) as earn_points and spend_points build it.            *)
(***************************************************************************)
EarnTransaction(trigger, amount, balance_after, character_id) ==
    [trigger |-> trigger, activity |-> None, amount |-> amount,
     balance_after |-> balance_after, character_id |-> character_id]

SpendTransaction(activity, cost, balance_after, character_id) ==
    [trigger |-> None, activity |-> activity, amount |-> cost,
     balance_after |-> balance_after, character_id |-> character_id]

\* self.transaction_history[character_id].append(transaction)
HistoryAppend(h, character_id, transaction) ==
    DictSet(h, character_id, Append(DictGet(h, character_id, <<>>), transaction))

(***************************************************************************)
(* Reads.                                                                  *)
(***************************************************************************)
Min(a, b) == IF a <= b THEN a ELSE b

Max0(a) == IF a >= 0 THEN a ELSE 0

get_balance(character_id) == DictGet(player_balances, character_id, 0)

get_session_earnings(character_id) == DictGet(earnings_this_session, character_id, 0)

get_session_spending(character_id) == DictGet(spending_this_session, character_id, 0)

\* get_transaction_history(character_id) with limit omitted
get_transaction_history(character_id) == DictGet(transaction_history, character_id, <<>>)

\* An Optional[int] argument: <<>> is None (omitted), <<n>> the integer n.
NoLimit == <<>>

\* history[-limit:], a Python slice with a negative or zero start index
SliceFrom(history, start) ==
    LET n == Len(history)
        first == IF start < 0 THEN Max0(n + start) ELSE IF start > n THEN n ELSE start
    IN SubSeq(history, first + 1, n)

\* get_transaction_history(character_id, limit)
get_transaction_history_limit(character_id, limit) ==
    LET history == DictGet(transaction_history, character_id, <<>>) IN
    IF limit /= NoLimit /\ limit[1] /= 0
    THEN SliceFrom(history, 0 - limit[1])
    ELSE history

\* Mutant of calculate_narrative_pressure: the thresholds are inclusive.
calculate_narrative_pressure_inclusive(character_id) ==
    LET current_balance == get_balance(character_id) IN
    IF current_balance <= 2 THEN 7
    ELSE IF current_balance <= 5 THEN 4
    ELSE IF current_balance <= 10 THEN 2
    ELSE 0

\* Mutant of calculate_narrative_pressure: the first two bands return each
\* other's value.
calculate_narrative_pressure_bands_swapped(character_id) ==
    LET current_balance == get_balance(character_id) IN
    IF current_balance < 2 THEN 4
    ELSE IF current_balance < 5 THEN 7
    ELSE IF current_balance < 10 THEN 2
    ELSE 0

\* Tenths: 7 is 0.7, 4 is 0.4, 2 is 0.2, 0 is 0.0.
calculate_narrative_pressure(character_id) ==
    LET current_balance == get_balance(character_id) IN
    IF current_balance < 2 THEN 7
    ELSE IF current_balance < 5 THEN 4
    ELSE IF current_balance < 10 THEN 2
    ELSE 0

Max(a, b) == IF a >= b THEN a ELSE b

\* The helper reads the pressure of the default account, "session_general".
\* int(original_amount * 0.5) and int(original_amount * 0.3) on a
\* non-negative integer are the floors of amount*5/10 and amount*3/10.
apply_narrative_pressure_bonus(trigger, original_amount) ==
    LET pressure == calculate_narrative_pressure("session_general") IN
    IF pressure > 5 THEN original_amount + Max(1, (original_amount * 5) \div 10)
    ELSE IF pressure > 3 THEN original_amount + Max(1, (original_amount * 3) \div 10)
    ELSE original_amount

(***************************************************************************)
(* The sequential operations: one action per call.                         *)
(***************************************************************************)
Returned(op, arg, character_id, ret) ==
    [op |-> op, arg |-> arg, character_id |-> character_id, ret |-> ret,
     raised |-> FALSE]

\* Mutant of earn_points: the transaction is built with amount and
\* balance_after exchanged.
earn_points_fields_swapped(trigger, character_id) ==
    LET amount == DictGet(earning_rates, trigger, 1) IN
    /\ IF Truthy(character_id)
       THEN LET new_balance == DictGet(player_balances, character_id, 0) + amount IN
            /\ player_balances' = DictSet(player_balances, character_id, new_balance)
            /\ transaction_history' =
                   HistoryAppend(transaction_history, character_id,
                       EarnTransaction(trigger, new_balance, amount, character_id))
            /\ earnings_this_session' =
                   DictSet(earnings_this_session, character_id,
                           DictGet(earnings_this_session, character_id, 0) + amount)
       ELSE UNCHANGED <<player_balances, transaction_history, earnings_this_session>>
    /\ UNCHANGED <<spending_this_session, current_scene_points, threads>>
    /\ last' = Returned("earn_points", trigger, character_id, amount)

\* Mutant of earn_points: the session counter is assigned, not incremented.
earn_points_session_assigned(trigger, character_id) ==
    LET amount == DictGet(earning_rates, trigger, 1) IN
    /\ IF Truthy(character_id)
       THEN LET new_balance == DictGet(player_balances, character_id, 0) + amount IN
            /\ player_balances' = DictSet(player_balances, character_id, new_balance)
            /\ transaction_history' =
                   HistoryAppend(transaction_history, character_id,
                       EarnTransaction(trigger, amount, new_balance, character_id))
            /\ earnings_this_session' =
                   DictSet(earnings_this_session, character_id, amount)
       ELSE UNCHANGED <<player_balances, transaction_history, earnings_this_session>>
    /\ UNCHANGED <<spending_this_session, current_scene_points, threads>>
    /\ last' = Returned("earn_points", trigger, character_id, amount)

\* Mutant of earn_points: the record keeps the balance from before the credit.
earn_points_stale_balance_after(trigger, character_id) ==
    LET amount == DictGet(earning_rates, trigger, 1) IN
    /\ IF Truthy(character_id)
       THEN LET old_balance == DictGet(player_balances, character_id, 0) IN
            /\ player_balances' = DictSet(player_balances, character_id, old_balance + amount)
            /\ transaction_history' =
                   HistoryAppend(transaction_history, character_id,
                       EarnTransaction(trigger, amount, old_balance, character_id))
            /\ earnings_this_session' =
                   DictSet(earnings_this_session, character_id,
                           DictGet(earnings_this_session, character_id, 0) + amount)
       ELSE UNCHANGED <<player_balances, transaction_history, earnings_this_session>>
    /\ UNCHANGED <<spending_this_session, current_scene_points, threads>>
    /\ last' = Returned("earn_points", trigger, character_id, amount)

\* Mutant of earn_points: the session counter is kept under one shared key.
earn_points_session_shared(trigger, character_id) ==
    LET amount == DictGet(earning_rates, trigger, 1) IN
    /\ IF Truthy(character_id)
       THEN LET new_balance == DictGet(player_balances, character_id, 0) + amount IN
            /\ player_balances' = DictSet(player_balances, character_id, new_balance)
            /\ transaction_history' =
                   HistoryAppend(transaction_history, character_id,
                       EarnTransaction(trigger, amount, new_balance, character_id))
            /\ earnings_this_session' =
                   DictSet(earnings_this_session, "session_general",
                           DictGet(earnings_this_session, "session_general", 0) + amount)
       ELSE UNCHANGED <<player_balances, transaction_history, earnings_this_session>>
    /\ UNCHANGED <<spending_this_session, current_scene_points, threads>>
    /\ last' = Returned("earn_points", trigger, character_id, amount)

earn_points(trigger, character_id) ==
    LET amount == DictGet(earning_rates, trigger, 1) IN
    /\ IF Truthy(character_id)
       THEN LET new_balance == DictGet(player_balances, character_id, 0) + amount IN
            /\ player_balances' = DictSet(player_balances, character_id, new_balance)
            /\ transaction_history' =
                   HistoryAppend(transaction_history, character_id,
                       EarnTransaction(trigger, amount, new_balance, character_id))
            /\ earnings_this_session' =
                   DictSet(earnings_this_session, character_id,
                           DictGet(earnings_this_session, character_id, 0) + amount)
       ELSE UNCHANGED <<player_balances, transaction_history, earnings_this_session>>
    /\ UNCHANGED <<spending_this_session, current_scene_points, threads>>
    /\ last' = Returned("earn_points", trigger, character_id, amount)

\* Mutant of spend_points: the affordability test is missing.
spend_points_unchecked(activity, character_id) ==
    LET cid == IF ~Truthy(character_id) THEN "session_general" ELSE character_id
        cost == DictGet(activity_costs, activity, 1)
        new_balance == DictGet(player_balances, cid, 0) - cost
    IN
    /\ player_balances' = DictSet(player_balances, cid, new_balance)
    /\ transaction_history' =
           HistoryAppend(transaction_history, cid,
               SpendTransaction(activity, cost, new_balance, cid))
    /\ spending_this_session' =
           DictSet(spending_this_session, cid,
                   DictGet(spending_this_session, cid, 0) + cost)
    /\ UNCHANGED <<earnings_this_session, current_scene_points, threads>>
    /\ last' = Returned("spend_points", activity, character_id, TRUE)

\* Mutant of spend_points: a spend that cannot be afforded empties the account.
spend_points_clamped(activity, character_id) ==
    LET cid == IF ~Truthy(character_id) THEN "session_general" ELSE character_id
        cost == DictGet(activity_costs, activity, 1)
    IN
    IF DictGet(player_balances, cid, 0) >= cost
    THEN LET new_balance == DictGet(player_balances, cid, 0) - cost IN
         /\ player_balances' = DictSet(player_balances, cid, new_balance)
         /\ transaction_history' =
                HistoryAppend(transaction_history, cid,
                    SpendTransaction(activity, cost, new_balance, cid))
         /\ spending_this_session' =
                DictSet(spending_this_session, cid,
                        DictGet(spending_this_session, cid, 0) + cost)
         /\ UNCHANGED <<earnings_this_session, current_scene_points, threads>>
         /\ last' = Returned("spend_points", activity, character_id, TRUE)
    ELSE /\ player_balances' = DictSet(player_balances, cid, 0)
         /\ UNCHANGED <<transaction_history, earnings_this_session,
                        spending_this_session, current_scene_points, threads>>
         /\ last' = Returned("spend_points", activity, character_id, FALSE)

\* Mutant of spend_points: the test is > where the code has >=.
spend_points_strict(activity, character_id) ==
    LET cid == IF ~Truthy(character_id) THEN "session_general" ELSE character_id
        cost == DictGet(activity_costs, activity, 1)
    IN
    IF DictGet(player_balances, cid, 0) > cost
    THEN LET new_balance == DictGet(player_balances, cid, 0) - cost IN
         /\ player_balances' = DictSet(player_balances, cid, new_balance)
         /\ transaction_history' =
                HistoryAppend(transaction_history, cid,
                    SpendTransaction(activity, cost, new_balance, cid))
         /\ spending_this_session' =
                DictSet(spending_this_session, cid,
                        DictGet(spending_this_session, cid, 0) + cost)
         /\ UNCHANGED <<earnings_this_session, current_scene_points, threads>>
         /\ last' = Returned("spend_points", activity, character_id, TRUE)
    ELSE /\ player_balances' = DefaultTouch(player_balances, cid, 0)
         /\ UNCHANGED <<transaction_history, earnings_this_session,
                        spending_this_session, current_scene_points, threads>>
         /\ last' = Returned("spend_points", activity, character_id, FALSE)

\* Mutant of spend_points: a refused spend is logged as a transaction.
spend_points_logs_refusal(activity, character_id) ==
    LET cid == IF ~Truthy(character_id) THEN "session_general" ELSE character_id
        cost == DictGet(activity_costs, activity, 1)
    IN
    IF DictGet(player_balances, cid, 0) >= cost
    THEN LET new_balance == DictGet(player_balances, cid, 0) - cost IN
         /\ player_balances' = DictSet(player_balances, cid, new_balance)
         /\ transaction_history' =
                HistoryAppend(transaction_history, cid,
                    SpendTransaction(activity, cost, new_balance, cid))
         /\ spending_this_session' =
                DictSet(spending_this_session, cid,
                        DictGet(spending_this_session, cid, 0) + cost)
         /\ UNCHANGED <<earnings_this_session, current_scene_points, threads>>
         /\ last' = Returned("spend_points", activity, character_id, TRUE)
    ELSE /\ player_balances' = DefaultTouch(player_balances, cid, 0)
         /\ transaction_history' =
                HistoryAppend(transaction_history, cid,
                    SpendTransaction(activity, 0, DictGet(player_balances, cid, 0), cid))
         /\ UNCHANGED <<earnings_this_session, spending_this_session,
                        current_scene_points, threads>>
         /\ last' = Returned("spend_points", activity, character_id, FALSE)

\* Mutant of spend_points: a successful spend is not added to the session counter.
spend_points_session_uncounted(activity, character_id) ==
    LET cid == IF ~Truthy(character_id) THEN "session_general" ELSE character_id
        cost == DictGet(activity_costs, activity, 1)
    IN
    IF DictGet(player_balances, cid, 0) >= cost
    THEN LET new_balance == DictGet(player_balances, cid, 0) - cost IN
         /\ player_balances' = DictSet(player_balances, cid, new_balance)
         /\ transaction_history' =
                HistoryAppend(transaction_history, cid,
                    SpendTransaction(activity, cost, new_balance, cid))
         /\ UNCHANGED <<earnings_this_session, spending_this_session,
                        current_scene_points, threads>>
         /\ last' = Returned("spend_points", activity, character_id, TRUE)
    ELSE /\ player_balances' = DefaultTouch(player_balances, cid, 0)
         /\ UNCHANGED <<transaction_history, earnings_this_session,
                        spending_this_session, current_scene_points, threads>>
         /\ last' = Returned("spend_points", activity, character_id, FALSE)

spend_points(activity, character_id) ==
    LET cid == IF ~Truthy(character_id) THEN "session_general" ELSE character_id
        cost == DictGet(activity_costs, activity, 1)
    IN
    IF DictGet(player_balances, cid, 0) >= cost
    THEN LET new_balance == DictGet(player_balances, cid, 0) - cost IN
         /\ player_balances' = DictSet(player_balances, cid, new_balance)
         /\ transaction_history' =
                HistoryAppend(transaction_history, cid,
                    SpendTransaction(activity, cost, new_balance, cid))
         /\ spending_this_session' =
                DictSet(spending_this_session, cid,
                        DictGet(spending_this_session, cid, 0) + cost)
         /\ UNCHANGED <<earnings_this_session, current_scene_points, threads>>
         /\ last' = Returned("spend_points", activity, character_id, TRUE)
    ELSE \* the comparison subscripts the defaultdict: a missing key is inserted as 0
         /\ player_balances' = DefaultTouch(player_balances, cid, 0)
         /\ UNCHANGED <<transaction_history, earnings_this_session,
                        spending_this_session, current_scene_points, threads>>
         /\ last' = Returned("spend_points", activity, character_id, FALSE)

\* Mutant of reset_session_data: the transaction log is cleared with the counters.
reset_session_data_clears_log ==
    /\ earnings_this_session' = EmptyDict
    /\ spending_this_session' = EmptyDict
    /\ transaction_history' = EmptyDict
    /\ current_scene_points' = 0
    /\ UNCHANGED <<player_balances, threads>>
    /\ last' = Returned("reset_session_data", None, None, None)

\* Mutant of reset_session_data: the balances are cleared with the counters.
reset_session_data_clears_balances ==
    /\ earnings_this_session' = EmptyDict
    /\ spending_this_session' = EmptyDict
    /\ player_balances' = EmptyDict
    /\ current_scene_points' = 0
    /\ UNCHANGED <<transaction_history, threads>>
    /\ last' = Returned("reset_session_data", None, None, None)

\* Mutant of reset_session_data: the spending counters are left as they are.
reset_session_data_keeps_spending ==
    /\ earnings_this_session' = EmptyDict
    /\ current_scene_points' = 0
    /\ UNCHANGED <<player_balances, transaction_history, spending_this_session, threads>>
    /\ last' = Returned("reset_session_data", None, None, None)

reset_session_data ==
    /\ earnings_this_session' = EmptyDict
    /\ spending_this_session' = EmptyDict
    /\ current_scene_points' = 0
    /\ UNCHANGED <<player_balances, transaction_history, threads>>
    /\ last' = Returned("reset_session_data", None, None, None)

(***************************************************************************)
(* Calls of the read operations: each returns what the read computes.      *)
(***************************************************************************)
\* Mutant of get_balance_call: the balance is read by subscript, which on a
\* defaultdict inserts the missing key.
get_balance_call_subscript(character_id) ==
    /\ player_balances' = DefaultTouch(player_balances, character_id, 0)
    /\ UNCHANGED <<transaction_history, earnings_this_session, spending_this_session,
                   current_scene_points, threads>>
    /\ last' = Returned("get_balance", None, character_id, get_balance(character_id))

get_balance_call(character_id) ==
    /\ UNCHANGED <<ledger, threads>>
    /\ last' = Returned("get_balance", None, character_id, get_balance(character_id))

get_session_earnings_call(character_id) ==
    /\ UNCHANGED <<ledger, threads>>
    /\ last' = Returned("get_session_earnings", None, character_id,
                        get_session_earnings(character_id))

get_session_spending_call(character_id) ==
    /\ UNCHANGED <<ledger, threads>>
    /\ last' = Returned("get_session_spending", None, character_id,
                        get_session_spending(character_id))

get_transaction_history_call(character_id, limit) ==
    /\ UNCHANGED <<ledger, threads>>
    /\ last' = Returned("get_transaction_history", limit, character_id,
                        get_transaction_history_limit(character_id, limit))

calculate_narrative_pressure_call(character_id) ==
    /\ UNCHANGED <<ledger, threads>>
    /\ last' = Returned("calculate_narrative_pressure", None, character_id,
                        calculate_narrative_pressure(character_id))

(***************************************************************************)
(* The sequential specification.                                           *)
(***************************************************************************)
RECURSIVE SumLen(_, _)
SumLen(h, keys) ==
    IF keys = {} THEN 0
    ELSE LET k == CHOOSE x \in keys : TRUE IN Len(h[k]) + SumLen(h, keys \ {k})

\* Transactions recorded so far, over all accounts.
TotalTx == SumLen(transaction_history, DOMAIN transaction_history)

Init ==
    /\ player_balances = EmptyDict
    /\ transaction_history = EmptyDict
    /\ earnings_this_session = EmptyDict
    /\ spending_this_session = EmptyDict
    /\ current_scene_points = 0
    /\ last = Returned("__init__", None, None, None)
    /\ pc = [t \in Threads |-> "idle"]
    /\ frame = [t \in Threads |-> IdleFrame]
    /\ current_step = 1
    /\ narrative_points = 0
    /\ cbx_total = 0
    /\ scene_history = <<>>
    /\ character_arcs = <<>>
    /\ narrative_threads = <<>>
    /\ creativity_history = [kind |-> "array", items |-> <<>>]
    /\ user_state = EmptyDict
    /\ save_string = <<>>
    /\ exported = <<>>
    /\ active_clocks = EmptyDict
    /\ completed_clocks = EmptyDict
    /\ global_opportunities = <<>>
    /\ system_status = [total_clocks_created |-> 0, total_clocks_completed |-> 0]

EarnCall ==
    \E trigger \in TriggerInputs, character_id \in CharacterIdInputs :
        /\ TotalTx < MaxTx
        /\ earn_points(trigger, character_id)
        /\ UNCHANGED <<orchestrator, save, clocks>>

SpendCall ==
    \E activity \in ActivityInputs, character_id \in CharacterIdInputs :
        /\ TotalTx < MaxTx
        /\ spend_points(activity, character_id)
        /\ UNCHANGED <<orchestrator, save, clocks>>

ResetCall == reset_session_data /\ UNCHANGED <<orchestrator, save, clocks>>

Next == EarnCall \/ SpendCall \/ ResetCall

Spec == Init /\ [][Next]_vars

(***************************************************************************)
(* The specification with reads: the same calls, drawn from fewer inputs,  *)
(* and the read operations between them.                                   *)
(***************************************************************************)
RWTriggerInputs == {"sacrificial_choice", "risk_taking"}
RWActivityInputs == {"introduce_element", "foreshadowing"}
RWCharacterIdInputs == {"alice", "session_general"}
\* Accounts the reads are asked about; "nobody" is never earned to or spent from.
ReadIdInputs == {"alice", "nobody"}
LimitInputs == {NoLimit, <<0>>, <<1>>, <<2>>}

WriteCall ==
    /\ TotalTx < MaxTx
    /\ \E character_id \in RWCharacterIdInputs :
           \/ \E trigger \in RWTriggerInputs : earn_points(trigger, character_id)
           \/ \E activity \in RWActivityInputs : spend_points(activity, character_id)
    /\ UNCHANGED <<orchestrator, save, clocks>>

ReadCall ==
    /\ \E character_id \in ReadIdInputs :
           \/ get_balance_call(character_id)
           \/ get_session_earnings_call(character_id)
           \/ get_session_spending_call(character_id)
           \/ calculate_narrative_pressure_call(character_id)
           \/ \E limit \in LimitInputs : get_transaction_history_call(character_id, limit)
    /\ UNCHANGED <<orchestrator, save, clocks>>

NextRW == WriteCall \/ ResetCall \/ ReadCall

SpecRW == Init /\ [][NextRW]_vars

(***************************************************************************)
(* The concurrent specification.  The web server runs request handlers on  *)
(* threads and the ledger takes no lock, so two calls may interleave       *)
(* between any two accesses to the shared dictionaries.  A thread makes    *)
(* one call; each action below is one access, named by its source line.    *)
(* An augmented assignment d[k] += v is a load of d[k] followed by a store.*)
(* Sequential earn_points calls made before the threads start set the      *)
(* balances up.                                                            *)
(***************************************************************************)
ConcTriggerInputs == {"sacrificial_choice", "story_advancement"}
ConcActivityInputs == {"introduce_element"}
ConcCharacterIdInputs == {"alice"}

Goto(t, label, f) ==
    /\ pc' = [pc EXCEPT ![t] = label]
    /\ frame' = [frame EXCEPT ![t] = f]

\* Calls made one after the other before any request thread starts.
Setup ==
    /\ \A t \in Threads : pc[t] = "idle"
    /\ TotalTx < MaxTx
    /\ \E trigger \in ConcTriggerInputs, character_id \in ConcCharacterIdInputs :
           earn_points(trigger, character_id)
    /\ UNCHANGED <<orchestrator, save, clocks>>

\* spend_points, lines 125-129: the account and the cost.
SpendEnter(t) ==
    /\ pc[t] = "idle"
    /\ \E activity \in ConcActivityInputs, character_id \in ConcCharacterIdInputs :
           Goto(t, "spend_131",
                [IdleFrame EXCEPT !.op = "spend_points", !.arg = activity,
                    !.character_id = IF ~Truthy(character_id) THEN "session_general"
                                     ELSE character_id,
                    !.amount = DictGet(activity_costs, activity, 1)])
    /\ UNCHANGED <<ledger, last>>

\* line 131: if self.player_balances[character_id] >= cost; else line 150.
Spend131(t) ==
    /\ pc[t] = "spend_131"
    /\ player_balances' = DefaultTouch(player_balances, frame[t].character_id, 0)
    /\ IF DictGet(player_balances, frame[t].character_id, 0) >= frame[t].amount
       THEN Goto(t, "spend_133_load", frame[t])
       ELSE Goto(t, "done", [frame[t] EXCEPT !.ret = FALSE])
    /\ UNCHANGED <<transaction_history, earnings_this_session, spending_this_session,
                   current_scene_points, last>>

\* line 133, the load of self.player_balances[character_id] -= cost
Spend133Load(t) ==
    /\ pc[t] = "spend_133_load"
    /\ Goto(t, "spend_133_store",
            [frame[t] EXCEPT !.tmp = player_balances[frame[t].character_id]])
    /\ UNCHANGED <<ledger, last>>

\* line 133, the store
Spend133Store(t) ==
    /\ pc[t] = "spend_133_store"
    /\ player_balances' =
           DictSet(player_balances, frame[t].character_id, frame[t].tmp - frame[t].amount)
    /\ Goto(t, "spend_139", frame[t])
    /\ UNCHANGED <<transaction_history, earnings_this_session, spending_this_session,
                   current_scene_points, last>>

\* line 139: balance_after=self.player_balances[character_id]
Spend139(t) ==
    /\ pc[t] = "spend_139"
    /\ Goto(t, "spend_145",
            [frame[t] EXCEPT !.balance_after = player_balances[frame[t].character_id]])
    /\ UNCHANGED <<ledger, last>>

\* line 145: self.transaction_history[character_id].append(transaction)
Spend145(t) ==
    /\ pc[t] = "spend_145"
    /\ transaction_history' =
           HistoryAppend(transaction_history, frame[t].character_id,
               SpendTransaction(frame[t].arg, frame[t].amount, frame[t].balance_after,
                                frame[t].character_id))
    /\ Goto(t, "spend_146_load", frame[t])
    /\ UNCHANGED <<player_balances, earnings_this_session, spending_this_session,
                   current_scene_points, last>>

\* line 146, the load of self.spending_this_session[character_id] += cost
Spend146Load(t) ==
    /\ pc[t] = "spend_146_load"
    /\ spending_this_session' =
           DefaultTouch(spending_this_session, frame[t].character_id, 0)
    /\ Goto(t, "spend_146_store",
            [frame[t] EXCEPT
                !.tmp = DictGet(spending_this_session, frame[t].character_id, 0)])
    /\ UNCHANGED <<player_balances, transaction_history, earnings_this_session,
                   current_scene_points, last>>

\* line 146, the store; line 148: return True
Spend146Store(t) ==
    /\ pc[t] = "spend_146_store"
    /\ spending_this_session' =
           DictSet(spending_this_session, frame[t].character_id,
                   frame[t].tmp + frame[t].amount)
    /\ Goto(t, "done", [frame[t] EXCEPT !.ret = TRUE])
    /\ UNCHANGED <<player_balances, transaction_history, earnings_this_session,
                   current_scene_points, last>>

\* earn_points, lines 100-102: the amount; a falsy character_id returns at once.
EarnEnter(t) ==
    /\ pc[t] = "idle"
    /\ \E trigger \in ConcTriggerInputs, character_id \in ConcCharacterIdInputs :
           LET f == [IdleFrame EXCEPT !.op = "earn_points", !.arg = trigger,
                        !.character_id = character_id,
                        !.amount = DictGet(earning_rates, trigger, 1)]
           IN IF Truthy(character_id)
              THEN Goto(t, "earn_104_load", f)
              ELSE Goto(t, "done", [f EXCEPT !.ret = f.amount])
    /\ UNCHANGED <<ledger, last>>

\* lines 103-104: old_balance is read, then the load of
\* self.player_balances[character_id] += amount
Earn104Load(t) ==
    /\ pc[t] = "earn_104_load"
    /\ player_balances' = DefaultTouch(player_balances, frame[t].character_id, 0)
    /\ Goto(t, "earn_104_store",
            [frame[t] EXCEPT !.tmp = DictGet(player_balances, frame[t].character_id, 0)])
    /\ UNCHANGED <<transaction_history, earnings_this_session, spending_this_session,
                   current_scene_points, last>>

\* line 104, the store
Earn104Store(t) ==
    /\ pc[t] = "earn_104_store"
    /\ player_balances' =
           DictSet(player_balances, frame[t].character_id, frame[t].tmp + frame[t].amount)
    /\ Goto(t, "earn_110", frame[t])
    /\ UNCHANGED <<transaction_history, earnings_this_session, spending_this_session,
                   current_scene_points, last>>

\* line 110: balance_after=self.player_balances[character_id]
Earn110(t) ==
    /\ pc[t] = "earn_110"
    /\ Goto(t, "earn_116",
            [frame[t] EXCEPT !.balance_after = player_balances[frame[t].character_id]])
    /\ UNCHANGED <<ledger, last>>

\* line 116: self.transaction_history[character_id].append(transaction)
Earn116(t) ==
    /\ pc[t] = "earn_116"
    /\ transaction_history' =
           HistoryAppend(transaction_history, frame[t].character_id,
               EarnTransaction(frame[t].arg, frame[t].amount, frame[t].balance_after,
                               frame[t].character_id))
    /\ Goto(t, "earn_117_load", frame[t])
    /\ UNCHANGED <<player_balances, earnings_this_session, spending_this_session,
                   current_scene_points, last>>

\* line 117, the load of self.earnings_this_session[character_id] += amount
Earn117Load(t) ==
    /\ pc[t] = "earn_117_load"
    /\ earnings_this_session' =
           DefaultTouch(earnings_this_session, frame[t].character_id, 0)
    /\ Goto(t, "earn_117_store",
            [frame[t] EXCEPT
                !.tmp = DictGet(earnings_this_session, frame[t].character_id, 0)])
    /\ UNCHANGED <<player_balances, transaction_history, spending_this_session,
                   current_scene_points, last>>

\* line 117, the store; line 119: return amount
Earn117Store(t) ==
    /\ pc[t] = "earn_117_store"
    /\ earnings_this_session' =
           DictSet(earnings_this_session, frame[t].character_id,
                   frame[t].tmp + frame[t].amount)
    /\ Goto(t, "done", [frame[t] EXCEPT !.ret = frame[t].amount])
    /\ UNCHANGED <<player_balances, transaction_history, spending_this_session,
                   current_scene_points, last>>

\* A read made by a request thread: get_balance (line 154), one dictionary
\* lookup.  seen keeps the history the account has at that same moment
\* (what get_transaction_history, line 166, would return then).
ReadObserve(t) ==
    /\ pc[t] = "idle"
    /\ \E character_id \in ConcCharacterIdInputs :
           Goto(t, "done",
                [IdleFrame EXCEPT !.op = "get_balance",
                                  !.character_id = character_id,
                                  !.ret = get_balance(character_id),
                                  !.seen = get_transaction_history(character_id)])
    /\ UNCHANGED <<ledger, last>>

ThreadStep(t) ==
    \/ SpendEnter(t) \/ Spend131(t) \/ Spend133Load(t) \/ Spend133Store(t)
    \/ Spend139(t) \/ Spend145(t) \/ Spend146Load(t) \/ Spend146Store(t)
    \/ EarnEnter(t) \/ Earn104Load(t) \/ Earn104Store(t) \/ Earn110(t)
    \/ Earn116(t) \/ Earn117Load(t) \/ Earn117Store(t)
    \/ ReadObserve(t)

NextConc == Setup \/ \E t \in Threads : ThreadStep(t) /\ UNCHANGED <<orchestrator, save, clocks>>

SpecConc == Init /\ [][NextConc]_vars

(***************************************************************************)
(* The save system (mynfini/game_state_manager.py, class GameStateManager) *)
(* and the fields of AdvancedAIOrchestrator it saves and restores.         *)
(*                                                                         *)
(* A Python dictionary key is a record [type, str, int]: a key may be a    *)
(* str, an int or None, and json.dumps writes all as JSON strings.  A dict *)
(* whose keys may be of these types (character_arcs, creativity_history)   *)
(* is the sequence of its entries [key, value] in insertion order, and its *)
(* JSON object is the sequence of the members [name, value] written.  An   *)
(* object whose member names are literals of the code (the document,       *)
(* game_data, metadata, session_data, user_state, the entries of           *)
(* scene_history, character_arcs and narrative_threads) is the record of   *)
(* its members; isoformat timestamps are left out.  A JSON value that may  *)
(* be of any type (creativity_history and what it holds, and whatever a    *)
(* received document has in the place of the document or of game_data) is  *)
(* a record [kind, items]; no object given as a record has a member named  *)
(* kind.  creativity_history starts as the empty list and user_state as    *)
(* {}; both change only when a game state is applied.                      *)
(***************************************************************************)
\* A str the code searches or iterates is the sequence of its characters.
UpperCase ==
    <<"A", "B", "C", "D", "E", "F", "G", "H", "I", "J", "K", "L", "M", "N",
      "O", "P", "Q", "R", "S", "T", "U", "V", "W", "X", "Y", "Z">>

LowerCase ==
    <<"a", "b", "c", "d", "e", "f", "g", "h", "i", "j", "k", "l", "m", "n",
      "o", "p", "q", "r", "s", "t", "u", "v", "w", "x", "y", "z">>

\* str.lower(), for text in ASCII
lower(text) ==
    [i \in DOMAIN text |->
        IF \E n \in DOMAIN UpperCase : UpperCase[n] = text[i]
        THEN LowerCase[CHOOSE n \in DOMAIN UpperCase : UpperCase[n] = text[i]]
        ELSE text[i]]

\* pattern in text, of two str
Contains(text, pattern) ==
    \E i \in 0..(Len(text) - Len(pattern)) :
        SubSeq(text, i + 1, i + Len(pattern)) = pattern

PyStr(s) == [type |-> "str", str |-> s, int |-> 0]
PyInt(n) == [type |-> "int", str |-> "", int |-> n]
PyNone == [type |-> "NoneType", str |-> "", int |-> 0]

\* str(n) for a one-digit int.
Digits == <<"0", "1", "2", "3", "4", "5", "6", "7", "8", "9">>
str_of_int(n) == Digits[n + 1]

\* json.dumps writes an int key of a dict as the string of its digits and
\* the key None as null.
json_key(k) ==
    IF k.type = "str" THEN k.str
    ELSE IF k.type = "int" THEN str_of_int(k.int)
    ELSE "null"

\* A dict whose order of insertion matters is the sequence of its entries
\* [key, value], no key twice: character_arcs and creativity_history, which
\* json.dumps writes entry by entry.
OrderedKeys(d) == {d[i].key : i \in DOMAIN d}

\* d[key] = value: a known key keeps its place, a new one goes last.
OrderedSet(d, key, value) ==
    IF key \in OrderedKeys(d)
    THEN [i \in DOMAIN d |-> IF d[i].key = key THEN [key |-> key, value |-> value] ELSE d[i]]
    ELSE Append(d, [key |-> key, value |-> value])

\* json.dumps of a dict whose values need no conversion: the members of the
\* JSON object in the order of the entries, each under its key written as
\* a string.  Two keys written alike give two members of one name.
json_dumps_dict(d) ==
    [i \in DOMAIN d |-> [name |-> json_key(d[i].key), value |-> d[i].value]]

\* json.loads of a JSON object: every key comes back as a str, and of two
\* members of one name the later value stays.
RECURSIVE json_loads_members(_, _)
json_loads_members(d, members) ==
    IF members = <<>> THEN d
    ELSE json_loads_members(OrderedSet(d, PyStr(Head(members).name), Head(members).value),
                            Tail(members))

json_loads_dict(object) == json_loads_members(<<>>, object)

\* JSON values by kind: an object by its members (in a dict, its entries),
\* an array by its items, a str that is iterated or searched by its
\* characters, another str or a number by a key record, and null.
JsonObject(items) == [kind |-> "object", items |-> items]
JsonArray(items) == [kind |-> "array", items |-> items]
JsonString(chars) == [kind |-> "string", items |-> chars]
JsonScalar(value) == [kind |-> "scalar", items |-> value]
JsonNull == [kind |-> "null", items |-> <<>>]

\* The value is an object given as the record of its members.
IsObject(value) == "kind" \notin DOMAIN value

\* bool(value) of a JSON value given by its kind
NonEmpty(value) ==
    IF value.kind = "scalar"
    THEN value.items /= PyInt(0) /\ value.items /= PyStr("")
    ELSE value.items /= <<>>

\* dict(value), line 48, of a list of no pairs or of a dict.
dict_of(value) == JsonObject(value.items)

save_version == "1.0"

\* get_complete_game_state, lines 30-63 (an orchestrator is attached).
get_complete_game_state(session_data) ==
    [version |-> save_version,
     game_data |->
        [current_step |-> current_step,
         narrative_points |-> narrative_points,
         cbx_total |-> cbx_total,
         scene_history |-> scene_history,
         character_arcs |-> character_arcs,
         narrative_threads |-> narrative_threads,
         creativity_history |-> dict_of(creativity_history),
         user_state |-> user_state,
         session_data |-> session_data],
     metadata |-> [save_version |-> save_version]]

\* json.dumps(game_state, indent=2): the JSON document of a game state;
\* the keys of character_arcs and of creativity_history are written as
\* strings, all other keys are strings already.
json_dumps(game_state) ==
    [game_state EXCEPT
        !.game_data.character_arcs = json_dumps_dict(game_state.game_data.character_arcs),
        !.game_data.creativity_history =
            JsonObject(json_dumps_dict(game_state.game_data.creativity_history.items))]

\* The document holds a game_data object with this member.
HasGameData(document, key) ==
    /\ IsObject(document)
    /\ "game_data" \in DOMAIN document
    /\ IsObject(document.game_data)
    /\ key \in DOMAIN document.game_data

\* json.loads(json_string): the objects whose keys the code reads back as
\* dict keys become dicts with str keys.
json_loads(json_string) ==
    LET arcs_loaded ==
            IF HasGameData(json_string, "character_arcs")
            THEN [json_string EXCEPT
                    !.game_data.character_arcs =
                        json_loads_dict(json_string.game_data.character_arcs)]
            ELSE json_string
    IN
    IF /\ HasGameData(json_string, "creativity_history")
       /\ json_string.game_data.creativity_history.kind = "object"
    THEN [arcs_loaded EXCEPT
            !.game_data.creativity_history =
                JsonObject(json_loads_dict(json_string.game_data.creativity_history.items))]
    ELSE arcs_loaded

\* base64.b64encode(text.encode('utf-8')).decode('utf-8') and its inverse.
b64encode(text) == [b64 |-> text]
b64decode(base64_string) == base64_string.b64

export_to_json_string(session_data) == json_dumps(get_complete_game_state(session_data))

export_to_base64(session_data) == b64encode(export_to_json_string(session_data))

import_from_json_string(json_string) == json_loads(json_string)

import_from_base64(base64_string) == import_from_json_string(b64decode(base64_string))

\* The fields of the orchestrator the save system is to restore.
SavedFields ==
    [current_step |-> current_step,
     narrative_points |-> narrative_points,
     cbx_total |-> cbx_total,
     scene_history |-> scene_history,
     character_arcs |-> character_arcs,
     narrative_threads |-> narrative_threads]

\* What the player types, as the str it is.  'fate intervention',
\* 'Death Defiance', 'a story alteration!', 'spend point' and 'use point'
\* ask to spend; 'I use a Fate Intervention' and 'I try to climb the wall'
\* read as creative actions, 'my class analysis' as a class analysis,
\* 'mega task' as a K2 task and 'I look around the room' as plain narrative
\* input.
UserInputInputs ==
    {<<"f", "a", "t", "e", " ", "i", "n", "t", "e", "r", "v", "e", "n", "t",
       "i", "o", "n">>,
     <<"D", "e", "a", "t", "h", " ", "D", "e", "f", "i", "a", "n", "c", "e">>,
     <<"a", " ", "s", "t", "o", "r", "y", " ", "a", "l", "t", "e", "r", "a",
       "t", "i", "o", "n", "!">>,
     <<"s", "p", "e", "n", "d", " ", "p", "o", "i", "n", "t">>,
     <<"u", "s", "e", " ", "p", "o", "i", "n", "t">>,
     <<"I", " ", "u", "s", "e", " ", "a", " ", "F", "a", "t", "e", " ", "I",
       "n", "t", "e", "r", "v", "e", "n", "t", "i", "o", "n">>,
     <<"I", " ", "t", "r", "y", " ", "t", "o", " ", "c", "l", "i", "m", "b",
       " ", "t", "h", "e", " ", "w", "a", "l", "l">>,
     <<"m", "y", " ", "c", "l", "a", "s", "s", " ", "a", "n", "a", "l", "y",
       "s", "i", "s">>,
     <<"m", "e", "g", "a", " ", "t", "a", "s", "k">>,
     <<"I", " ", "l", "o", "o", "k", " ", "a", "r", "o", "u", "n", "d", " ",
       "t", "h", "e", " ", "r", "o", "o", "m">>}

\* any(indicator in user_input.lower() for indicator in indicators)
ContainsAny(user_input, indicators) ==
    \E indicator \in indicators : Contains(lower(user_input), indicator)

\* _is_creative_action_request, lines 2070-2073
is_creative_action_request(user_input) ==
    ContainsAny(user_input,
    {<<"i", " ", "d", "e", "s", "c", "r", "i", "b", "e">>,
     <<"i", " ", "u", "s", "e">>,
     <<"i", " ", "a", "t", "t", "e", "m", "p", "t">>,
     <<"i", " ", "t", "r", "y">>,
     <<"c", "r", "e", "a", "t", "i", "v", "e">>,
     <<"e", "n", "v", "i", "r", "o", "n", "m", "e", "n", "t", "a", "l">>})

\* _is_class_analysis_request, lines 2102-2105
is_class_analysis_request(user_input) ==
    ContainsAny(user_input,
    {<<"c", "l", "a", "s", "s", " ", "a", "n", "a", "l", "y", "s", "i", "s">>,
     <<"m", "y", " ", "c", "l", "a", "s", "s">>,
     <<"p", "e", "r", "s", "o", "n", "a", "l", " ", "c", "l", "a", "s", "s">>,
     <<"b", "e", "h", "a", "v", "i", "o", "r", " ", "a", "n", "a", "l", "y",
       "s", "i", "s">>,
     <<"j", "o", "u", "r", "n", "e", "y", " ", "a", "n", "a", "l", "y", "s",
       "i", "s">>})

\* _is_narrative_points_request, lines 2129-2132
is_narrative_points_request(user_input) ==
    ContainsAny(user_input,
    {<<"n", "a", "r", "r", "a", "t", "i", "v", "e", " ", "p", "o", "i", "n",
       "t">>,
     <<"s", "p", "e", "n", "d", " ", "p", "o", "i", "n", "t">>,
     <<"u", "s", "e", " ", "p", "o", "i", "n", "t">>,
     <<"f", "a", "t", "e", " ", "i", "n", "t", "e", "r", "v", "e", "n", "t",
       "i", "o", "n">>,
     <<"d", "e", "a", "t", "h", " ", "d", "e", "f", "i", "a", "n", "c", "e">>,
     <<"s", "t", "o", "r", "y", " ", "a", "l", "t", "e", "r", "a", "t", "i",
       "o", "n">>})

\* _is_k2_mega_task_request, lines 2175-2178
is_k2_mega_task_request(user_input) ==
    ContainsAny(user_input,
    {<<"m", "e", "g", "a", " ", "t", "a", "s", "k">>,
     <<"k", "2", " ", "t", "a", "s", "k">>,
     <<"m", "a", "s", "s", "i", "v", "e", " ", "p", "a", "r", "a", "l", "l",
       "e", "l">>,
     <<"1", "2", "7", " ", "a", "g", "e", "n", "t", "s">>,
     <<"k", "i", "m", "i", " ", "k", "2">>,
     <<"s", "y", "n", "t", "h", "e", "t", "i", "c", ".", "n", "e", "w">>,
     <<"m", "o", "o", "n", "s", "h", "o", "t">>})

SessionDataInputs == {[narrative_points |-> 0, current_step |-> 1]}

\* A call that ended in an exception.
Raised(op, arg, exception) ==
    [op |-> op, arg |-> arg, character_id |-> None, ret |-> exception,
     raised |-> TRUE]

\* Lines 2146-2157: the cost by the effect the input names.
spending_cost(user_input) ==
    IF Contains(lower(user_input), <<"f", "a", "t", "e", " ", "i", "n", "t", "e", "r", "v", "e", "n", "t", "i", "o", "n">>) THEN 1
    ELSE IF Contains(lower(user_input), <<"d", "e", "a", "t", "h", " ", "d", "e", "f", "i", "a", "n", "c", "e">>) THEN 2
    ELSE IF Contains(lower(user_input), <<"s", "t", "o", "r", "y", " ", "a", "l", "t", "e", "r", "a", "t", "i", "o", "n">>) THEN 3
    ELSE 1

\* What _process_narrative_points returns, by the keys read here.
SpendResponse(error, narrative_points_spent, narrative_points_total) ==
    [error |-> error, narrative_points_spent |-> narrative_points_spent,
     narrative_points_total |-> narrative_points_total]

\* Mutant of _process_narrative_points: the cost is deducted without the
\* test of line 2159.
process_narrative_points_unchecked(user_input) ==
    LET current_np == narrative_points
        cost == spending_cost(user_input)
    IN
    /\ UNCHANGED <<current_step, cbx_total, scene_history, character_arcs,
                   narrative_threads, creativity_history, user_state, save>>
    /\ IF current_np <= 0
       THEN /\ UNCHANGED narrative_points
            /\ last' = Returned("_process_narrative_points", user_input, None,
                                SpendResponse("insufficient_narrative_points", 0, 0))
       ELSE /\ narrative_points' = narrative_points - cost
            /\ last' = Returned("_process_narrative_points", user_input, None,
                                SpendResponse(None, cost, narrative_points - cost))

\* _process_narrative_points, lines 2134-2173
process_narrative_points(user_input) ==
    LET current_np == narrative_points
        cost == spending_cost(user_input)
    IN
    /\ UNCHANGED <<current_step, cbx_total, scene_history, character_arcs,
                   narrative_threads, creativity_history, user_state, save>>
    /\ IF current_np <= 0
       THEN /\ UNCHANGED narrative_points
            /\ last' = Returned("_process_narrative_points", user_input, None,
                                SpendResponse("insufficient_narrative_points", 0, 0))
       ELSE IF cost <= current_np
       THEN /\ narrative_points' = narrative_points - cost
            /\ last' = Returned("_process_narrative_points", user_input, None,
                                SpendResponse(None, cost, narrative_points - cost))
       ELSE /\ UNCHANGED narrative_points
            /\ last' = Returned("_process_narrative_points", user_input, None,
                                SpendResponse("insufficient_narrative_points", 0, current_np))

\* _process_k2_mega_task, lines 2180-2209, with the K2 orchestrator
\* attached: execute_mega_task (kimi_k2_orchestrator.py, line 164) calls the
\* coroutine _assign_agents_to_subtasks without awaiting it and fails on
\* the coroutine object, so the totals of lines 2220-2224 are not reached
\* and the handler of line 2203 answers.
process_k2_mega_task(user_input) ==
    /\ UNCHANGED <<orchestrator, save>>
    /\ last' = Returned("_process_k2_mega_task", user_input, None,
                        [error |-> "k2_mega_task_failed"])

\* The exception Config().get_client() and the call on the client of lines
\* 2314-2316 end in: get_client (config.py, lines 89-94) raises ValueError
\* when no AI manager was set up, and else returns the AIConfigManager,
\* which has no attribute messages.
ClientErrorInputs == {"AttributeError", "ValueError"}

\* process_advanced_input, lines 2281-2331.  The reply of the client is
\* never received: line 2316 raises, only json.JSONDecodeError is handled
\* (line 2330), and json.loads (line 2322) and _enhance_with_mechanics
\* (line 2325) are not reached.
process_advanced_input(user_input, exception) ==
    /\ UNCHANGED <<orchestrator, save>>
    /\ last' = Raised("process_advanced_input", user_input, exception)

\* create_advanced_fallback, lines 2417-2427, by the keys read here.
create_advanced_fallback ==
    [cbx_earned |-> 0,
     cbx_earned_enhanced |-> 0,
     narrative_points_total |-> narrative_points,
     error |-> "Advanced system processing additional narrative context"]

\* process_revolutionary_input, lines 2045-2068: the input goes to the
\* first branch whose indicators it holds, and an exception of the branch
\* is answered with the fallback (line 2067).  Each branch but the spending
\* and the K2 one ends in an exception before it changes a field:
\*   _process_creative_resolution (lines 2076-2100) at line 939, which
\*     reads self.human_storytelling_engine, an attribute
\*     InteractiveResolutionSystem.__init__ (lines 706-712) does not set;
\*   _process_class_analysis (lines 2107-2127) at line 2117 or 2119, which
\*     read class_assessment['dominant_pattern'], a key the assessment of
\*     line 1297 holds as ' dominant_pattern';
\*   process_advanced_input at line 2314 or 2316.
process_revolutionary_input(user_input) ==
    IF is_creative_action_request(user_input)
    THEN /\ UNCHANGED <<orchestrator, save>>
         /\ last' = Returned("process_revolutionary_input", user_input, None,
                             create_advanced_fallback)
    ELSE IF is_class_analysis_request(user_input)
    THEN /\ UNCHANGED <<orchestrator, save>>
         /\ last' = Returned("process_revolutionary_input", user_input, None,
                             create_advanced_fallback)
    ELSE IF is_narrative_points_request(user_input)
    THEN process_narrative_points(user_input)
    ELSE IF is_k2_mega_task_request(user_input)
    THEN process_k2_mega_task(user_input)
    ELSE /\ UNCHANGED <<orchestrator, save>>
         /\ last' = Returned("process_revolutionary_input", user_input, None,
                             create_advanced_fallback)

\* The game progress test_save_system.py writes on the orchestrator,
\* lines 43-68.
add_test_data ==
    /\ current_step' = 5
    /\ narrative_points' = 150
    /\ cbx_total' = 75
    /\ scene_history' =
           Append(scene_history,
                  [scene |-> "Test Scene Entry",
                   timestamp |-> "2025-01-17T12:00:00Z",
                   narrative_points_earned |-> 10])
    /\ character_arcs' =
           OrderedSet(character_arcs, PyStr("TestPlayer"),
                   <<[archetype |-> "Seeker", level |-> 3, discoveries |-> 5]>>)
    /\ narrative_threads' =
           Append(narrative_threads,
                  [id |-> "test_thread_1", title |-> "The Great Adventure",
                   status |-> "active"])
    /\ UNCHANGED <<creativity_history, user_state, save>>
    /\ last' = Returned("add_test_data", None, None, None)

\* export_to_base64, lines 70-73; the text is kept for a later import.
export_to_base64_call(session_data) ==
    /\ save_string' = <<export_to_base64(session_data)>>
    /\ exported' = <<SavedFields>>
    /\ UNCHANGED orchestrator
    /\ last' = Returned("export_to_base64", None, None, None)

\* The fields reset before a load, test_save_system.py, lines 150-154.
reset_fields ==
    /\ current_step' = 1
    /\ narrative_points' = 0
    /\ scene_history' = <<>>
    /\ character_arcs' = <<>>
    /\ narrative_threads' = <<>>
    /\ UNCHANGED <<cbx_total, creativity_history, user_state, save>>
    /\ last' = Returned("reset_fields", None, None, None)

\* hash(value) succeeds: the value is no list and no dict.
Hashable(value) == value.kind \notin {"array", "object"}

\* An item of the list from which dict() takes a key and a value: a list of
\* two values whose first is hashable, a str of two characters, or a dict
\* of two keys.
IsPair(item) ==
    /\ item.kind \in {"array", "string", "object"}
    /\ Len(item.items) = 2
    /\ item.kind = "array" => Hashable(item.items[1])

\* A list from which a dict can be built: every item is such a pair.
IsPairs(value) ==
    \A i \in 1..Len(value.items) : IsPair(value.items[i])

\* The dict key a hashable JSON value is: a str or a number as it is, null
\* as None.
KeyOf(value) == IF value.kind = "null" THEN PyNone ELSE value.items

\* The two elements of a pair: of a list its values, of a str its
\* characters, of a dict its keys.
PairKey(item) ==
    IF item.kind = "string" THEN PyStr(item.items[1])
    ELSE IF item.kind = "object" THEN PyStr(item.items[1].name)
    ELSE KeyOf(item.items[1])

PairValue(item) ==
    IF item.kind = "string" THEN JsonScalar(PyStr(item.items[2]))
    ELSE IF item.kind = "object" THEN JsonScalar(PyStr(item.items[2].name))
    ELSE item.items[2]

\* The dict built from a list of pairs, pair by pair.
RECURSIVE PairsDictFrom(_, _)
PairsDictFrom(d, pairs) ==
    IF pairs = <<>> THEN d
    ELSE PairsDictFrom(OrderedSet(d, PairKey(Head(pairs)), PairValue(Head(pairs))),
                       Tail(pairs))

PairsDict(value) == PairsDictFrom(<<>>, value.items)

\* defaultdict(list, data), line 112, succeeds: data is a dict or a list of
\* pairs; a str of one character or more and a number are neither.
CanBuildDict(data) ==
    \/ data.kind = "object"
    \/ data.kind = "array" /\ IsPairs(data)

\* Mutant of lines 99-106: narrative_threads is not assigned.
RestoreProgress_keeps_threads(game_data) ==
    /\ current_step' = DictGet(game_data, "current_step", 1)
    /\ narrative_points' = DictGet(game_data, "narrative_points", 0)
    /\ cbx_total' = DictGet(game_data, "cbx_total", 0)
    /\ scene_history' = DictGet(game_data, "scene_history", <<>>)
    /\ character_arcs' = DictGet(game_data, "character_arcs", <<>>)
    /\ UNCHANGED narrative_threads

\* Lines 99-106 of apply_game_state: the six fields assigned one by one.
RestoreProgress(game_data) ==
    /\ current_step' = DictGet(game_data, "current_step", 1)
    /\ narrative_points' = DictGet(game_data, "narrative_points", 0)
    /\ cbx_total' = DictGet(game_data, "cbx_total", 0)
    /\ scene_history' = DictGet(game_data, "scene_history", <<>>)
    /\ character_arcs' = DictGet(game_data, "character_arcs", <<>>)
    /\ narrative_threads' = DictGet(game_data, "narrative_threads", <<>>)

\* apply_game_state, lines 90-121, with an orchestrator attached.  A state
\* that is empty is refused at line 92; one that is no dict, or whose
\* game_data is no dict, has no get (lines 96, 99) and nothing is assigned.
\* Otherwise the fields are assigned in order; defaultdict(list, data),
\* line 112, raises on data from which no dict can be built, and the
\* handler of line 119 returns False with the earlier assignments done.
apply_game_state(game_state) ==
    LET game_data == DictGet(game_state, "game_data", EmptyDict)
        creativity_history_data == DictGet(game_data, "creativity_history", JsonObject(<<>>))
    IN
    /\ UNCHANGED save
    /\ IF ~IsObject(game_state) \/ DOMAIN game_state = {} \/ ~IsObject(game_data)
       THEN /\ UNCHANGED orchestrator
            /\ last' = Returned("apply_game_state", game_state, None, FALSE)
       ELSE /\ RestoreProgress(game_data)
            /\ IF NonEmpty(creativity_history_data)
               THEN IF CanBuildDict(creativity_history_data)
                    THEN /\ creativity_history' =
                                IF creativity_history_data.kind = "object"
                                THEN creativity_history_data
                                ELSE JsonObject(PairsDict(creativity_history_data))
                         /\ user_state' = DictGet(game_data, "user_state", EmptyDict)
                         /\ last' = Returned("apply_game_state", game_state, None, TRUE)
                    ELSE /\ UNCHANGED <<creativity_history, user_state>>
                         /\ last' = Returned("apply_game_state", game_state, None, FALSE)
               ELSE /\ UNCHANGED creativity_history
                    /\ user_state' = DictGet(game_data, "user_state", EmptyDict)
                    /\ last' = Returned("apply_game_state", game_state, None, TRUE)

\* A required key of game_data as the str it is.
KeyChars(key) ==
    IF key = "current_step"
    THEN <<"c", "u", "r", "r", "e", "n", "t", "_", "s", "t", "e", "p">>
    ELSE <<"n", "a", "r", "r", "a", "t", "i", "v", "e", "_", "p", "o", "i", "n", "t", "s">>

\* key in game_data, line 165: a key of a dict, an item of a list, a part
\* of a str.
KeyIn(key, game_data) ==
    IF IsObject(game_data) THEN key \in DOMAIN game_data
    ELSE IF game_data.kind = "array"
    THEN \E i \in DOMAIN game_data.items : game_data.items[i] = JsonString(KeyChars(key))
    ELSE Contains(game_data.items, KeyChars(key))

\* The exception validate_save_compatibility ends in, None when it returns:
\* a state that is no dict has no get (line 152); a game_data that is a
\* number or null cannot be searched (line 165).
validate_save_compatibility_error(game_state) ==
    IF ~IsObject(game_state) THEN "AttributeError"
    ELSE IF /\ DictGet(game_state, "version", "0.0") = save_version
            /\ "game_data" \in DOMAIN game_state
            /\ "metadata" \in DOMAIN game_state
            /\ ~IsObject(game_state.game_data)
            /\ game_state.game_data.kind \in {"scalar", "null"}
    THEN "TypeError"
    ELSE None

\* validate_save_compatibility, lines 150-168, when it returns: the verdict
\* and the kind of message.
validate_save_compatibility(game_state) ==
    LET version == DictGet(game_state, "version", "0.0")
        game_data == DictGet(game_state, "game_data", EmptyDict)
    IN
    IF version /= save_version THEN <<FALSE, "Incompatible save version">>
    ELSE IF "game_data" \notin DOMAIN game_state \/ "metadata" \notin DOMAIN game_state
    THEN <<FALSE, "Missing required key">>
    ELSE IF ~KeyIn("current_step", game_data) \/ ~KeyIn("narrative_points", game_data)
    THEN <<FALSE, "Missing required game data">>
    ELSE <<TRUE, "Save file is compatible">>

validate_save_compatibility_call(game_state) ==
    /\ UNCHANGED <<orchestrator, save>>
    /\ last' = IF validate_save_compatibility_error(game_state) /= None
               THEN Raised("validate_save_compatibility", game_state,
                           validate_save_compatibility_error(game_state))
               ELSE Returned("validate_save_compatibility", game_state, None,
                             validate_save_compatibility(game_state))

\* The dictionary without one key.
Without(d, key) == [k \in DOMAIN d \ {key} |-> d[k]]

\* A save document as another session of the game wrote it.
GoodDocument ==
    [version |-> "1.0",
     game_data |->
        [current_step |-> 5,
         narrative_points |-> 1,
         cbx_total |-> 1,
         scene_history |-> <<>>,
         character_arcs |-> <<>>,
         narrative_threads |-> <<>>,
         creativity_history |->
             JsonObject(<<[name |-> "player",
                           value |-> JsonArray(<<JsonScalar(PyStr("a bold idea"))>>)]>>),
         user_state |-> [theme |-> "dark"],
         session_data |-> [narrative_points |-> 0, current_step |-> 1]],
     metadata |-> [save_version |-> "1.0"]]

\* GoodDocument with this creativity_history.
WithCreativityHistory(value) ==
    [GoodDocument EXCEPT !.game_data.creativity_history = value]

\* Save documents received from outside: the good one; ones of another
\* version or with a part missing; ones whose game_data is the list
\* ["current_step", "narrative_points"], the str
\* 'narrative_points,current_step' or null; ones whose creativity_history
\* is the list [["a bold idea"]], [["player", ["a bold idea"]]], ["ab"],
\* [[["x"], 1]], [{"a": 1, "b": 2}] or [[1, "a"]]; the empty document {} and
\* the document [1].
DocumentInputs ==
    {GoodDocument,
     [GoodDocument EXCEPT !.version = "0.9"],
     Without(GoodDocument, "version"),
     Without(GoodDocument, "game_data"),
     Without(GoodDocument, "metadata"),
     [GoodDocument EXCEPT !.game_data = Without(@, "current_step")],
     [GoodDocument EXCEPT !.game_data = Without(@, "narrative_points")],
     [GoodDocument EXCEPT
         !.game_data = JsonArray(<<JsonString(KeyChars("current_step")),
                                   JsonString(KeyChars("narrative_points"))>>)],
     [GoodDocument EXCEPT
         !.game_data = JsonString(KeyChars("narrative_points") \o <<",">>
                                      \o KeyChars("current_step"))],
     [GoodDocument EXCEPT !.game_data = JsonNull],
     WithCreativityHistory(JsonArray(<<JsonArray(<<JsonScalar(PyStr("a bold idea"))>>)>>)),
     WithCreativityHistory(
         JsonArray(<<JsonArray(<<JsonScalar(PyStr("player")),
                                 JsonArray(<<JsonScalar(PyStr("a bold idea"))>>)>>)>>)),
     WithCreativityHistory(JsonArray(<<JsonString(<<"a", "b">>)>>)),
     WithCreativityHistory(
         JsonArray(<<JsonArray(<<JsonArray(<<JsonScalar(PyStr("x"))>>),
                                 JsonScalar(PyInt(1))>>)>>)),
     WithCreativityHistory(
         JsonArray(<<JsonObject(<<[name |-> "a", value |-> JsonScalar(PyInt(1))],
                                  [name |-> "b", value |-> JsonScalar(PyInt(2))]>>)>>)),
     WithCreativityHistory(
         JsonArray(<<JsonArray(<<JsonScalar(PyInt(1)), JsonScalar(PyStr("a"))>>)>>)),
     EmptyDict,
     JsonArray(<<JsonScalar(PyInt(1))>>)}

\* The game state loaded from the save text exported last, if any.
OwnSave ==
    IF save_string = <<>> THEN {} ELSE {import_from_base64(save_string[1])}

ValidateCall ==
    /\ \E game_state \in OwnSave \cup {import_from_json_string(d) : d \in DocumentInputs} :
           validate_save_compatibility_call(game_state)
    /\ UNCHANGED <<ledger, threads, clocks>>

\* import_game_state of web_app.py, lines 763-790, with format 'json': the
\* document is parsed and validated, and applied only when it is valid;
\* an invalid one is answered with 400 and the message of the verdict, an
\* exception of the validation with 500 by the handler of line 809.
import_game_state(import_data) ==
    LET game_state == import_from_json_string(import_data)
        error == validate_save_compatibility_error(game_state)
    IN
    IF error /= None
    THEN /\ UNCHANGED <<orchestrator, save>>
         /\ last' = Returned("import_game_state", import_data, None,
                             [status |-> 500, error |-> error])
    ELSE IF ~validate_save_compatibility(game_state)[1]
    THEN /\ UNCHANGED <<orchestrator, save>>
         /\ last' = Returned("import_game_state", import_data, None,
                             [status |-> 400,
                              error |-> validate_save_compatibility(game_state)[2]])
    ELSE apply_game_state(game_state)

\* A save document from outside is posted to the import handler.
ApplyCall ==
    /\ \E document \in DocumentInputs : import_game_state(document)
    /\ UNCHANGED <<ledger, threads, clocks>>

\* The total test_save_system.py gives the orchestrator, line 44.
TestNarrativePoints == 150

\* Spending is followed for MaxPoints points below the total of the test
\* and from MaxPoints points down.
SpendExplored ==
    \/ narrative_points <= MaxPoints
    \/ narrative_points > TestNarrativePoints - MaxPoints

\* A player input is processed: by process_revolutionary_input
\* (complete_revolutionary_system.py, line 82) or by process_advanced_input
\* (web_app.py, line 411).
ProcessCall ==
    /\ SpendExplored
    /\ \E user_input \in UserInputInputs :
           \/ process_revolutionary_input(user_input)
           \/ \E exception \in ClientErrorInputs :
                  process_advanced_input(user_input, exception)
    /\ UNCHANGED <<ledger, threads, clocks>>

TestDataCall ==
    /\ Len(scene_history) < MaxGame
    /\ add_test_data
    /\ UNCHANGED <<ledger, threads, clocks>>

ExportCall ==
    /\ \E session_data \in SessionDataInputs : export_to_base64_call(session_data)
    /\ UNCHANGED <<ledger, threads, clocks>>

ResetFieldsCall == reset_fields /\ UNCHANGED <<ledger, threads, clocks>>

\* The save text is loaded and applied: import_from_base64, then
\* apply_game_state.
ImportCall ==
    /\ save_string /= <<>>
    /\ apply_game_state(import_from_base64(save_string[1]))
    /\ UNCHANGED <<ledger, threads, clocks>>

NextSave == ProcessCall \/ TestDataCall \/ ExportCall \/ ResetFieldsCall \/ ImportCall

SpecSave == Init /\ [][NextSave]_vars

(***************************************************************************)
(* Loading saves: the manager's own export and documents from outside are  *)
(* validated and applied (web_app.py, import_game_state).                  *)
(***************************************************************************)
NextLoad == ExportCall \/ ImportCall \/ ValidateCall \/ ApplyCall

SpecLoad == Init /\ [][NextLoad]_vars

(***************************************************************************)
(* The orchestrator's own narrative points total.  No input-processing     *)
(* call adds to it; it is the total a loaded game brings, spent by          *)
(* _process_narrative_points.                                              *)
(***************************************************************************)
\* The totals of the saved games loaded.
PointsInputs == 0..MaxPoints

\* A save document of a game with this total.
PointsDocument(points) ==
    [GoodDocument EXCEPT !.game_data.narrative_points = points]

\* A saved game is posted to the import handler.
RestoreCall ==
    /\ \E points \in PointsInputs : import_game_state(PointsDocument(points))
    /\ UNCHANGED <<ledger, threads, clocks>>

NextPoints == RestoreCall \/ ProcessCall

SpecPoints == Init /\ [][NextPoints]_vars

(***************************************************************************)
(* The clock system (mynfini/enhanced_clock_system_complete.py, class      *)
(* EnhancedClockSystem): progress clocks that are created, filled segment  *)
(* by segment and moved to completed_clocks when full.  A clock keeps the  *)
(* fields the operations read or write; its timestamps, description and    *)
(* critical_events are opaque.  Of system_status the two clock totals are  *)
(* kept; the others are written by make_attribute_check only.  Fills are   *)
(* made with the default context (narrative_weight 1.0).                   *)
(***************************************************************************)
\* deque(maxlen=10), line 62
OpportunitiesMaxLen == 10

PARTIAL_FILL == "partial_fill"
COMPLETE_FILL == "complete_fill"
OVERFILL == "overfill"

ClockIdInputs == {"c1", "c2"}
ClockNameInputs == {"Ritual"}
SegmentsInputs == {1, 2, 3}
SegmentsFilledInputs == {1, 2}

\* clock_data, lines 199-214
ClockData(clock_id, name, segments, category) ==
    [id |-> clock_id,
     name |-> name,
     segments |-> segments,
     filled_segments |-> 0,
     category |-> category,
     opportunities_generated |-> <<>>,
     completion_bonuses |-> [opportunities |-> segments \div 2, fabula |-> segments]]

\* deque.append on a deque of bounded length: the oldest entry is dropped.
DequeAppend(deque, entry) ==
    LET appended == Append(deque, entry) IN
    IF Len(appended) > OpportunitiesMaxLen
    THEN SubSeq(appended, 2, Len(appended))
    ELSE appended

RECURSIVE DequeAppendTimes(_, _, _)
DequeAppendTimes(deque, entry, times) ==
    IF times <= 0 THEN deque
    ELSE DequeAppendTimes(DequeAppend(deque, entry), entry, times - 1)

\* _calculate_opportunity_benefit, lines 284-295
calculate_opportunity_benefit(opportunity_type) ==
    CASE opportunity_type = "information_gain" -> [bonus_to_next_check |-> 2]
      [] opportunity_type = "positional_advantage" -> [advantage_on_next_roll |-> TRUE]
      [] opportunity_type = "resource_creation" -> [temporary_resource |-> 1]
      [] opportunity_type = "relationship_development" -> [social_bonus |-> 3]
      [] opportunity_type = "timing_advantage" -> [reroll_next_check |-> TRUE]
      [] opportunity_type = "revelation" -> [story_bonus |-> 2]
      [] OTHER -> [generic_bonus |-> 1]

\* The opportunity _create_global_opportunity builds (lines 272-280) when
\* _complete_clock calls it (line 263); its timestamp is left out.
Opportunity(clock) ==
    [type |-> clock.category,
     description |-> <<"From completing: ", clock.name>>,
     claimed |-> FALSE,
     mechanical_benefit |-> calculate_opportunity_benefit(clock.category)]

\* _generate_opportunities, lines 347-351, with narrative_weight 1.0
generate_opportunities(magnitude) == magnitude \div 2 + 1

\* [f"opportunity_{i}" for i in range(count)], by the index i
OpportunityNames(count) == [i \in 1..count |-> i - 1]

\* create_clock, lines 196-219
create_clock(clock_id, name, segments) ==
    LET clock_data == ClockData(clock_id, name, segments, "progress") IN
    /\ active_clocks' = DictSet(active_clocks, clock_id, clock_data)
    /\ system_status' =
           [system_status EXCEPT !.total_clocks_created = @ + 1]
    /\ UNCHANGED <<completed_clocks, global_opportunities>>
    /\ last' = Returned("create_clock", <<clock_id, segments>>, None, clock_data)

\* Mutant of fill_clock_segment: the fill is not capped at the clock's size.
fill_clock_segment_uncapped(clock_id, segments_filled) ==
    IF clock_id \notin DOMAIN active_clocks
    THEN /\ UNCHANGED clocks
         /\ last' = Returned("fill_clock_segment", <<clock_id, segments_filled>>, None,
                             PARTIAL_FILL)
    ELSE
    LET clock == active_clocks[clock_id]
        old_filled == clock.filled_segments
        new_filled == old_filled + segments_filled
        generated ==
            IF segments_filled > 1 \/ new_filled - old_filled >= 2
            THEN OpportunityNames(generate_opportunities(segments_filled))
            ELSE <<>>
        filled == [clock EXCEPT !.filled_segments = new_filled,
                                !.opportunities_generated = @ \o generated]
    IN
    IF new_filled >= clock.segments
    THEN /\ global_opportunities' =
                DequeAppendTimes(global_opportunities, Opportunity(filled),
                                 filled.completion_bonuses.opportunities)
         /\ completed_clocks' = DictSet(completed_clocks, clock_id, filled)
         /\ active_clocks' = Without(active_clocks, clock_id)
         /\ system_status' = [system_status EXCEPT !.total_clocks_completed = @ + 1]
         /\ last' = Returned("fill_clock_segment", <<clock_id, segments_filled>>, None,
                             COMPLETE_FILL)
    ELSE /\ active_clocks' = DictSet(active_clocks, clock_id, filled)
         /\ UNCHANGED <<completed_clocks, global_opportunities, system_status>>
         /\ last' = Returned("fill_clock_segment", <<clock_id, segments_filled>>, None,
                             IF new_filled > old_filled THEN PARTIAL_FILL ELSE OVERFILL)

\* fill_clock_segment, lines 221-253, with _complete_clock, lines 255-270
fill_clock_segment(clock_id, segments_filled) ==
    IF clock_id \notin DOMAIN active_clocks
    THEN /\ UNCHANGED clocks
         /\ last' = Returned("fill_clock_segment", <<clock_id, segments_filled>>, None,
                             PARTIAL_FILL)
    ELSE
    LET clock == active_clocks[clock_id]
        old_filled == clock.filled_segments
        new_filled == Min(clock.segments, old_filled + segments_filled)
        generated ==
            IF segments_filled > 1 \/ new_filled - old_filled >= 2
            THEN OpportunityNames(generate_opportunities(segments_filled))
            ELSE <<>>
        filled == [clock EXCEPT !.filled_segments = new_filled,
                                !.opportunities_generated = @ \o generated]
    IN
    IF new_filled = clock.segments
    THEN /\ global_opportunities' =
                DequeAppendTimes(global_opportunities, Opportunity(filled),
                                 filled.completion_bonuses.opportunities)
         /\ completed_clocks' = DictSet(completed_clocks, clock_id, filled)
         /\ active_clocks' = Without(active_clocks, clock_id)
         /\ system_status' = [system_status EXCEPT !.total_clocks_completed = @ + 1]
         /\ last' = Returned("fill_clock_segment", <<clock_id, segments_filled>>, None,
                             COMPLETE_FILL)
    ELSE /\ active_clocks' = DictSet(active_clocks, clock_id, filled)
         /\ UNCHANGED <<completed_clocks, global_opportunities, system_status>>
         /\ last' = Returned("fill_clock_segment", <<clock_id, segments_filled>>, None,
                             IF new_filled > old_filled THEN PARTIAL_FILL ELSE OVERFILL)

CreateClockCall ==
    /\ system_status.total_clocks_created < MaxClocks
    /\ \E clock_id \in ClockIdInputs, name \in ClockNameInputs, segments \in SegmentsInputs :
           create_clock(clock_id, name, segments)
    /\ UNCHANGED <<ledger, threads, orchestrator, save>>

FillClockCall ==
    /\ \E clock_id \in ClockIdInputs, segments_filled \in SegmentsFilledInputs :
           fill_clock_segment(clock_id, segments_filled)
    /\ UNCHANGED <<ledger, threads, orchestrator, save>>

NextClocks == CreateClockCall \/ FillClockCall

SpecClocks == Init /\ [][NextClocks]_vars

(***************************************************************************)
(* Vocabulary of the properties.                                           *)
(***************************************************************************)
\* The account a call with this character_id argument acts on in spend_points.
SpendAccount(character_id) ==
    IF Truthy(character_id) THEN character_id ELSE "session_general"

\* A record is an Earn when it carries a trigger, a Spend when it carries an
\* activity (NPTransaction has no field for its kind).
IsEarn(tx) == tx.trigger /= None

RECURSIVE Replay(_)
\* The balance obtained by replaying a history from zero.
Replay(h) ==
    IF h = <<>> THEN 0
    ELSE LET tx == h[Len(h)] IN
         Replay(SubSeq(h, 1, Len(h) - 1)) + (IF IsEarn(tx) THEN tx.amount ELSE 0 - tx.amount)

RECURSIVE Credited(_)
\* Total of all amounts ever credited by the records of a history.
Credited(h) ==
    IF h = <<>> THEN 0
    ELSE (IF IsEarn(Head(h)) THEN Head(h).amount ELSE 0) + Credited(Tail(h))

RECURSIVE Debited(_)
\* Total of all amounts ever debited by the records of a history.
Debited(h) ==
    IF h = <<>> THEN 0
    ELSE (IF IsEarn(Head(h)) THEN 0 ELSE Head(h).amount) + Debited(Tail(h))

lifetime_earned(character_id) == Credited(get_transaction_history(character_id))
lifetime_spent(character_id) == Debited(get_transaction_history(character_id))

\* What a caller can observe of one account.
AccountView(character_id) ==
    <<get_balance(character_id), get_transaction_history(character_id),
      get_session_earnings(character_id), get_session_spending(character_id)>>

\* No account's balance, history or session counters change in the step.
NoAccountChanges == \A c \in CharacterIdInputs : AccountView(c)' = AccountView(c)

(***************************************************************************)
(* C1.  For every account, balance = lifetime_earned - lifetime_spent,     *)
(* where the two totals are the sums of all amounts ever credited and ever *)
(* debited; neither total ever decreases, a session reset included.        *)
(***************************************************************************)
C1_BalanceIdentity ==
    \A c \in CharacterIdInputs : get_balance(c) = lifetime_earned(c) - lifetime_spent(c)

C1_TotalsNeverDecrease ==
    \A c \in CharacterIdInputs :
        /\ lifetime_earned(c)' >= lifetime_earned(c)
        /\ lifetime_spent(c)' >= lifetime_spent(c)

\* C1: in every state balance = lifetime_earned - lifetime_spent, and no step
\* (a session reset included) lowers either total.
C1_LifetimeBalance == []C1_BalanceIdentity /\ [][C1_TotalsNeverDecrease]_vars

\* A session reset happened on an account that has both earned and spent.
C1_Witness ==
    /\ last.op = "reset_session_data"
    /\ lifetime_earned("alice") > lifetime_spent("alice")
    /\ lifetime_spent("alice") > 0

(***************************************************************************)
(* C2.  Under sequential calls no balance is ever negative: a spend whose  *)
(* cost exceeds the balance is rejected, neither clamped nor applied.      *)
(***************************************************************************)
C2_NonNegative == \A c \in DOMAIN player_balances : player_balances[c] >= 0

\* The step is the call op(arg, character_id).
Called(op, arg, character_id) ==
    last'.op = op /\ last'.arg = arg /\ last'.character_id = character_id

C2_RejectedNotClamped ==
    \A activity \in NPActivity, character_id \in CharacterIdInputs :
        (/\ Called("spend_points", activity, character_id)
         /\ activity_costs[activity] > get_balance(SpendAccount(character_id)))
        => /\ last'.ret = FALSE
           /\ get_balance(SpendAccount(character_id))' = get_balance(SpendAccount(character_id))

\* C2: no balance is ever negative, and a spend costing more than the balance
\* returns failure and leaves the balance as it was.
C2_BalanceNeverNegative == []C2_NonNegative /\ [][C2_RejectedNotClamped]_vars

\* A spend of cost 3 was refused on an account that holds 1 or 2 points.
C2_Witness ==
    /\ last.op = "spend_points"
    /\ last.arg = "introduce_element"
    /\ last.ret = FALSE
    /\ get_balance(SpendAccount(last.character_id)) \in {1, 2}

(***************************************************************************)
(* C4.  A spend made when balance < cost returns failure and changes       *)
(* nothing: balance, history and session counters of every account stay    *)
(* as they were, and no transaction is appended.                           *)
(***************************************************************************)
C4_Step ==
    \A activity \in NPActivity, character_id \in CharacterIdInputs :
        (/\ Called("spend_points", activity, character_id)
         /\ get_balance(SpendAccount(character_id)) < activity_costs[activity])
        => /\ last'.ret = FALSE
           /\ NoAccountChanges
           /\ TotalTx' = TotalTx

\* C4: a spend with balance < cost returns failure and changes no account.
C4_FailedSpendChangesNothing == [][C4_Step]_vars

\* A refused spend on an account that has a history and a session record.
C4_Witness ==
    /\ last.op = "spend_points"
    /\ last.arg \in NPActivity
    /\ last.ret = FALSE
    /\ get_balance(SpendAccount(last.character_id)) > 0
    /\ get_session_spending(SpendAccount(last.character_id)) > 0

(***************************************************************************)
(* C5.  A spend made when balance >= cost (balance = cost included)        *)
(* returns success, lowers the balance by exactly the cost, appends        *)
(* exactly one Spend transaction of that amount and raises the account's   *)
(* session-spent counter by the cost.                                      *)
(***************************************************************************)
\* The step appends exactly one record to the account's history, and none elsewhere.
AppendsOne(cid) ==
    /\ Len(get_transaction_history(cid)') = Len(get_transaction_history(cid)) + 1
    /\ SubSeq(get_transaction_history(cid)', 1, Len(get_transaction_history(cid)))
           = get_transaction_history(cid)
    /\ TotalTx' = TotalTx + 1

\* The record the step appended to the account's history.
Appended(cid) == get_transaction_history(cid)'[Len(get_transaction_history(cid)')]

C5_Step ==
    \A activity \in NPActivity, character_id \in CharacterIdInputs :
        LET cid == SpendAccount(character_id)
            cost == activity_costs[activity]
        IN
        (/\ Called("spend_points", activity, character_id)
         /\ get_balance(cid) >= cost)
        => /\ last'.ret = TRUE
           /\ get_balance(cid)' = get_balance(cid) - cost
           /\ AppendsOne(cid)
           /\ ~IsEarn(Appended(cid))
           /\ Appended(cid).activity = activity
           /\ Appended(cid).amount = cost
           /\ get_session_spending(cid)' = get_session_spending(cid) + cost

\* C5: a spend with balance >= cost succeeds, deducts the cost, appends one
\* Spend record of that amount and adds the cost to the session-spent counter.
C5_SuccessfulSpend == [][C5_Step]_vars

\* A spend succeeded with balance exactly equal to the cost, on an account
\* that had already spent in this session.
C5_Witness ==
    /\ last.op = "spend_points"
    /\ last.arg \in NPActivity
    /\ last.ret = TRUE
    /\ get_balance(SpendAccount(last.character_id)) = 0
    /\ get_session_spending(SpendAccount(last.character_id)) > activity_costs[last.arg]

(***************************************************************************)
(* C6.  Replaying an account's full history from zero (+amount for an Earn *)
(* record, -amount for a Spend record) gives its current balance.          *)
(***************************************************************************)
\* C6: the replay of every account's history equals its balance.
C6_ReplayConsistency ==
    \A c \in CharacterIdInputs : Replay(get_transaction_history(c)) = get_balance(c)

\* An account with earns and spends in its history, after a session reset.
C6_Witness ==
    /\ last.op = "reset_session_data"
    /\ \E c \in DOMAIN transaction_history :
           /\ Len(transaction_history[c]) >= 3
           /\ \E i, j \in 1..Len(transaction_history[c]) :
                  /\ IsEarn(transaction_history[c][i])
                  /\ ~IsEarn(transaction_history[c][j])

(***************************************************************************)
(* C8.  An earn with a valid trigger and a non-empty character_id          *)
(* succeeds and returns the amount credited: the balance rises by the      *)
(* returned value, exactly one Earn transaction of that amount is          *)
(* appended, the session-earned counter rises by the same value.           *)
(***************************************************************************)
C8_Step ==
    \A trigger \in NPEarningTrigger, cid \in CharacterIdInputs :
        (/\ Called("earn_points", trigger, cid)
         /\ Truthy(cid))
        => /\ ~last'.raised
           /\ last'.ret \in Int
           /\ get_balance(cid)' = get_balance(cid) + last'.ret
           /\ AppendsOne(cid)
           /\ IsEarn(Appended(cid))
           /\ Appended(cid).trigger = trigger
           /\ Appended(cid).amount = last'.ret
           /\ get_session_earnings(cid)' = get_session_earnings(cid) + last'.ret

\* C8: a valid earn returns the amount by which balance, history and
\* session-earned counter grow.
C8_EarnReturnsCredit == [][C8_Step]_vars

\* A valid earn on an account that had already earned in this session.
C8_Witness ==
    /\ last.op = "earn_points"
    /\ last.arg \in NPEarningTrigger
    /\ Truthy(last.character_id)
    /\ get_session_earnings(last.character_id) > last.ret
    /\ get_balance(last.character_id) > last.ret

(***************************************************************************)
(* C7.  An earn credits the trigger's base rate plus a pressure bonus      *)
(* computed from the account's balance before the earn: pressure 0.7 for   *)
(* balance < 2, 0.4 for < 5, 0.2 for < 10, else 0; the bonus is            *)
(* floor(base x pressure) when pressure > 0.3 and 0 otherwise.  The first  *)
(* RISK_TAKING earn on a new account credits 3 and leaves its balance 3.   *)
(***************************************************************************)
\* floor(base x pressure) with the pressure in tenths
C7_Bonus(base, pressure) == IF pressure > 3 THEN (base * pressure) \div 10 ELSE 0

C7_Step ==
    \A trigger \in NPEarningTrigger, cid \in CharacterIdInputs :
        (/\ Called("earn_points", trigger, cid)
         /\ Truthy(cid))
        => get_balance(cid)' =
               get_balance(cid) + earning_rates[trigger]
                   + C7_Bonus(earning_rates[trigger], calculate_narrative_pressure(cid))

C7_FirstRiskTaking ==
    \A cid \in CharacterIdInputs :
        (/\ Called("earn_points", "risk_taking", cid)
         /\ Truthy(cid)
         /\ get_transaction_history(cid) = <<>>)
        => last'.ret = 3 /\ get_balance(cid)' = 3

\* C7: every earn credits base + pressure bonus; the first RISK_TAKING earn
\* credits 3.
C7_EarnAddsPressureBonus == [][C7_Step /\ C7_FirstRiskTaking]_vars

(***************************************************************************)
(* C9.  An earn with a trigger outside the closed set of triggers, and a   *)
(* spend with an activity outside the closed set of activities, is         *)
(* rejected with an error and changes no ledger state; it is never carried *)
(* out with a default reward or cost.                                      *)
(***************************************************************************)
C9_Step ==
    (\/ last'.op = "earn_points" /\ last'.arg \notin NPEarningTrigger
     \/ last'.op = "spend_points" /\ last'.arg \notin NPActivity)
    => /\ NoAccountChanges
       /\ TotalTx' = TotalTx
       /\ last'.raised

\* C9: a call with an unknown trigger or activity raises an error and changes
\* no account.
C9_UnknownEnumRejected == [][C9_Step]_vars

(***************************************************************************)
(* C10.  An earn or spend whose account id is the empty string is rejected *)
(* as a caller error: it reports an error and changes the balance, history *)
(* and session counters of no account, "session_general" included.         *)
(***************************************************************************)
C10_Step ==
    (/\ last'.op \in {"earn_points", "spend_points"}
     /\ last'.character_id = "")
    => /\ NoAccountChanges
       /\ TotalTx' = TotalTx
       /\ last'.raised

\* C10: an earn or spend with the empty string as account id raises an error
\* and changes no account.
C10_EmptyIdRejected == [][C10_Step]_vars

(***************************************************************************)
(* C3.  Two spend_points calls running concurrently on one account that    *)
(* holds 5, each of cost 3: under every interleaving exactly one returns   *)
(* success, the other failure, and the final balance is 2.                 *)
(***************************************************************************)
\* Both threads have returned from a spend of cost 3 on "alice", who had
\* been credited 5 in all before they started.
C3_BothSpendsReturned ==
    /\ \A t \in Threads :
           /\ pc[t] = "done"
           /\ frame[t].op = "spend_points"
           /\ frame[t].character_id = "alice"
           /\ frame[t].amount = 3
    /\ lifetime_earned("alice") = 5

\* C3: once both concurrent spends of cost 3 on a balance of 5 have returned,
\* exactly one has succeeded, the other has failed, and the balance is 2.
C3_ConcurrentSpends ==
    C3_BothSpendsReturned
    => /\ Cardinality({t \in Threads : frame[t].ret = TRUE}) = 1
       /\ Cardinality({t \in Threads : frame[t].ret = FALSE}) = 1
       /\ get_balance("alice") = 2

(***************************************************************************)
(* C11.  reset_session_data leaves the balance and the transaction history *)
(* of every account exactly as they were; only session-scoped counters     *)
(* change.                                                                 *)
(***************************************************************************)
C11_Step ==
    last'.op = "reset_session_data"
    => /\ player_balances' = player_balances
       /\ transaction_history' = transaction_history

\* C11: a reset changes neither a balance nor a history.
C11_ResetKeepsLedger == [][C11_Step]_vars

\* A reset on a ledger where "session_general" holds points and has a history.
C11_Witness ==
    /\ last.op = "reset_session_data"
    /\ get_balance("session_general") > 0
    /\ Len(get_transaction_history("session_general")) >= 2
    /\ get_session_earnings("session_general") = 0

(***************************************************************************)
(* C12.  Resetting the session of one account zeroes the session counters  *)
(* of that account only; the counters of every other account are           *)
(* unchanged.                                                              *)
(***************************************************************************)
Accounts == {"alice", "session_general"}

SessionCounters(character_id) ==
    <<get_session_earnings(character_id), get_session_spending(character_id)>>

C12_OneAccountStep ==
    last'.op = "reset_session_data"
    => \E account \in Accounts :
           \A other \in Accounts \ {account} :
               SessionCounters(other)' = SessionCounters(other)

\* C12 as claimed: a reset leaves the counters of all accounts but one unchanged.
C12_ResetOneAccountOnly == [][C12_OneAccountStep]_vars

C12_AllAccountsStep ==
    last'.op = "reset_session_data"
    => /\ \A c \in CharacterIdInputs \cup {"nobody"} : SessionCounters(c)' = <<0, 0>>
       /\ earnings_this_session' = EmptyDict
       /\ spending_this_session' = EmptyDict

\* C12 as amended: reset_session_data takes no account and zeroes the
\* session-earned and session-spent counters of every account.
C12_ResetZeroesEveryAccount == [][C12_AllAccountsStep]_vars

\* A reset after both accounts had earned and one had spent.
C12_Witness ==
    /\ last.op = "reset_session_data"
    /\ lifetime_earned("alice") > 0
    /\ lifetime_earned("session_general") > 0
    /\ lifetime_spent("alice") + lifetime_spent("session_general") > 0
    /\ \A c \in Accounts : SessionCounters(c) = <<0, 0>>

(***************************************************************************)
(* C13.  get_transaction_history(account) with no limit is exactly the     *)
(* sequence of that account's successful earns and successful spends in    *)
(* the order performed, most recent last; no later operation (a failed     *)
(* spend, a read, a reset, an operation on another account) removes,       *)
(* reorders or alters a record already in it.                              *)
(***************************************************************************)
\* The step is a successful earn or spend on the account.
C13_WritesTo(c) ==
    \/ last'.op = "earn_points" /\ Truthy(last'.character_id) /\ last'.character_id = c
    \/ /\ last'.op = "spend_points"
       /\ last'.ret = TRUE
       /\ SpendAccount(last'.character_id) = c

C13_Step ==
    \A c \in Accounts \cup ReadIdInputs :
        IF C13_WritesTo(c)
        THEN /\ AppendsOne(c)
             /\ Appended(c).amount > 0
             /\ IF last'.op = "earn_points"
                THEN Appended(c).trigger = last'.arg /\ Appended(c).activity = None
                ELSE Appended(c).activity = last'.arg /\ Appended(c).trigger = None
        ELSE get_transaction_history(c)' = get_transaction_history(c)

\* The unlimited read returns the stored history itself.
C13_ReadIsLog ==
    (last.op = "get_transaction_history" /\ last.arg = NoLimit)
    => last.ret = DictGet(transaction_history, last.character_id, <<>>)

\* C13: every step either appends the record of the successful earn or spend
\* it performs to that account's history or leaves the history as it was, and
\* the unlimited read returns that history.
C13_HistoryAppendOnly == []C13_ReadIsLog /\ [][C13_Step]_vars

\* The full history of "alice" was read, holding an earn then a spend, while
\* "session_general" has a history of its own.
C13_Witness ==
    /\ last.op = "get_transaction_history"
    /\ last.arg = NoLimit
    /\ last.character_id = "alice"
    /\ Len(last.ret) = 2
    /\ IsEarn(last.ret[1])
    /\ ~IsEarn(last.ret[2])
    /\ get_transaction_history("session_general") /= <<>>

(***************************************************************************)
(* C15.  calculate_narrative_pressure(account) is a function of the        *)
(* account's current balance only: 0.7 below 2, 0.4 from 2 up to but not   *)
(* including 5, 0.2 from 5 up to but not including 10, 0 from 10 up; it is *)
(* within [0, 1] and reflects the balance at the time of the call.         *)
(* Pressures are in tenths.                                                *)
(***************************************************************************)
C15_Band(balance) ==
    IF balance < 2 THEN 7
    ELSE IF balance >= 2 /\ balance < 5 THEN 4
    ELSE IF balance >= 5 /\ balance < 10 THEN 2
    ELSE 0

\* C15: the pressure a call returns is the band of the balance the account
\* has at that moment, and lies between 0 and 1.
C15_PressureBands ==
    /\ last.op = "calculate_narrative_pressure"
       => /\ last.ret = C15_Band(get_balance(last.character_id))
          /\ last.ret \in 0..10
    /\ \A c \in Accounts \cup ReadIdInputs :
           calculate_narrative_pressure(c) = C15_Band(get_balance(c))

\* The pressure of "alice" was read as 0 after she had earned 10 points or more.
C15_Witness ==
    /\ last.op = "calculate_narrative_pressure"
    /\ last.character_id = "alice"
    /\ last.ret = 0
    /\ get_balance("alice") >= 10

(***************************************************************************)
(* C16.  Pressure is non-increasing in balance: of two balances the higher *)
(* never has the higher pressure, so a successful spend never lowers an    *)
(* account's pressure and an earn never raises it.                         *)
(***************************************************************************)
C16_Pairs ==
    \A c1, c2 \in CharacterIdInputs :
        get_balance(c1) <= get_balance(c2)
        => calculate_narrative_pressure(c2) <= calculate_narrative_pressure(c1)

C16_Step ==
    \A c \in CharacterIdInputs :
        /\ get_balance(c)' < get_balance(c)
           => calculate_narrative_pressure(c)' >= calculate_narrative_pressure(c)
        /\ get_balance(c)' > get_balance(c)
           => calculate_narrative_pressure(c)' <= calculate_narrative_pressure(c)

\* C16: the account with the higher balance never has the higher pressure,
\* and no step that lowers a balance lowers its pressure nor does one that
\* raises a balance raise its pressure.
C16_PressureMonotone == []C16_Pairs /\ [][C16_Step]_vars

\* A successful spend of 3 took an account from the 0.4 band into the 0.7 band.
C16_Witness ==
    /\ last.op = "spend_points"
    /\ last.ret = TRUE
    /\ last.arg = "introduce_element"
    /\ get_balance(SpendAccount(last.character_id)) = 1
    /\ calculate_narrative_pressure(SpendAccount(last.character_id)) = 7

(***************************************************************************)
(* C17.  get_balance, get_session_earnings, get_session_spending,          *)
(* calculate_narrative_pressure and get_transaction_history change no      *)
(* ledger state, for a known and for a never-referenced account; called    *)
(* again with nothing in between they return the same result.              *)
(***************************************************************************)
ReadOps ==
    {"get_balance", "get_session_earnings", "get_session_spending",
     "calculate_narrative_pressure", "get_transaction_history"}

C17_Step ==
    last'.op \in ReadOps
    => /\ ledger' = ledger
       /\ (/\ last.op = last'.op
           /\ last.character_id = last'.character_id
           /\ last.arg = last'.arg)
          => last'.ret = last.ret

\* C17: a read leaves every field of the ledger as it was, and the same read
\* repeated returns what it returned before.
C17_ReadsArePure == [][C17_Step]_vars

\* The balance of a never-referenced account was read on a ledger that
\* holds transactions, and the account is still absent from every field.
C17_Witness ==
    /\ last.op = "get_balance"
    /\ last.character_id = "nobody"
    /\ last.ret = 0
    /\ TotalTx > 0
    /\ "nobody" \notin DOMAIN player_balances
    /\ "nobody" \notin DOMAIN transaction_history

(***************************************************************************)
(* C18.  Every transaction's balance_after is non-negative and equals the  *)
(* replay of the account's history up to and including that record.        *)
(***************************************************************************)
\* C18: each record's balance_after is the replay of the records up to it
\* and is not negative.
C18_BalanceAfterIsReplay ==
    \A c \in DOMAIN transaction_history :
        \A i \in 1..Len(transaction_history[c]) :
            /\ transaction_history[c][i].balance_after >= 0
            /\ transaction_history[c][i].balance_after =
                   Replay(SubSeq(transaction_history[c], 1, i))

\* An account with three records, the second a spend that left points over.
C18_Witness ==
    \E c \in DOMAIN transaction_history :
        /\ Len(transaction_history[c]) = 3
        /\ ~IsEarn(transaction_history[c][2])
        /\ transaction_history[c][2].balance_after > 0
        /\ IsEarn(transaction_history[c][3])

(***************************************************************************)
(* C19.  Activity with no character is tracked under 'session_general',    *)
(* for earning and spending alike: an earn with the character id omitted   *)
(* credits 'session_general'.                                              *)
(***************************************************************************)
C19_Step ==
    \A trigger \in TriggerInputs :
        Called("earn_points", trigger, None)
        => /\ get_balance("session_general")' = get_balance("session_general") + last'.ret
           /\ AppendsOne("session_general")

\* C19: an earn made without a character id credits "session_general" with
\* the amount it returns and records it there.
C19_EarnWithoutIdCreditsGeneral == [][C19_Step]_vars

(***************************************************************************)
(* C14.  A read that interleaves with an earn_points or spend_points in    *)
(* progress on the same account never observes a partially applied         *)
(* transaction: the balance it sees equals the replay of the history it    *)
(* sees at the same moment.                                                *)
(***************************************************************************)
\* C14: the balance a thread read is the replay of the history the account
\* had at the moment of the read.
C14_ReadSeesWholeTransactions ==
    \A t \in Threads :
        (pc[t] = "done" /\ frame[t].op = "get_balance")
        => frame[t].ret = Replay(frame[t].seen)

C22_Step ==
    last'.op \in {"earn_points", "spend_points"}
    => \A b \in CharacterIdInputs \cup {"nobody"} :
           b /= (IF last'.op = "spend_points"
                 THEN SpendAccount(last'.character_id)
                 ELSE last'.character_id)
           => AccountView(b)' = AccountView(b)

\* C22: an earn or a spend changes nothing of any account but its own.
C22_AccountsIsolated == [][C22_Step]_vars

\* A spend on "alice" was refused while "session_general" holds points, a
\* history and session counters of its own, and "alice" has earned before.
C22_Witness ==
    /\ last.op = "spend_points"
    /\ last.character_id = "alice"
    /\ last.ret = FALSE
    /\ get_transaction_history("alice") /= <<>>
    /\ get_balance("session_general") > 0
    /\ get_session_earnings("session_general") > 0

(***************************************************************************)
(* C23.  For every account, session_earned - session_spent equals the      *)
(* balance minus the balance it had at the most recent reset_session_data  *)
(* (zero if never reset); so until the first reset balance ==              *)
(* session_earned - session_spent, and the counters are never negative.    *)
(***************************************************************************)
SessionNet(character_id) ==
    get_session_earnings(character_id) - get_session_spending(character_id)

C23_CountersNonNegative ==
    \A c \in CharacterIdInputs :
        get_session_earnings(c) >= 0 /\ get_session_spending(c) >= 0

\* A reset leaves the balance and brings the session net to 0; any other
\* step moves the session net by what it moves the balance.
C23_Step ==
    \A c \in CharacterIdInputs :
        IF last'.op = "reset_session_data"
        THEN SessionNet(c)' = 0 /\ get_balance(c)' = get_balance(c)
        ELSE SessionNet(c)' - SessionNet(c) = get_balance(c)' - get_balance(c)

C23_BalanceIsSessionNet ==
    \A c \in CharacterIdInputs : get_balance(c) = SessionNet(c)

\* Before the first reset the balance is the session net.
C23_UntilResetStep ==
    (C23_BalanceIsSessionNet /\ last'.op /= "reset_session_data")
    => C23_BalanceIsSessionNet'

\* C23: the session net of an account is its balance less the balance at the
\* latest reset (the balance itself while no reset has happened), and neither
\* session counter is negative.
C23_SessionCountersTrackBalance ==
    /\ C23_BalanceIsSessionNet
    /\ []C23_CountersNonNegative
    /\ [][C23_Step]_vars
    /\ [][C23_UntilResetStep]_vars

\* After a reset at balance 4 "alice" spent 3: session net -3, balance 1.
C23_Witness ==
    /\ last.op = "spend_points"
    /\ last.ret = TRUE
    /\ get_balance("alice") = 1
    /\ get_session_earnings("alice") = 0
    /\ get_session_spending("alice") = 3

(***************************************************************************)
(* C24.  get_transaction_history(account, limit=n) returns, for every      *)
(* integer n >= 0, the last min(n, length) transactions of the history in  *)
(* order (none for n = 0); with limit omitted it returns the full history. *)
(***************************************************************************)
C24_LastRecords(history, n) ==
    SubSeq(history, Len(history) - Min(n, Len(history)) + 1, Len(history))

\* C24: a limited read returns the last min(n, length) records of the
\* history, an unlimited read all of it.
C24_HistoryLimit ==
    last.op = "get_transaction_history"
    => LET history == DictGet(transaction_history, last.character_id, <<>>) IN
       IF last.arg = NoLimit
       THEN last.ret = history
       ELSE last.ret = C24_LastRecords(history, last.arg[1])

(***************************************************************************)
(* C21.  validate_save_compatibility accepts every game state the same     *)
(* GameStateManager exported, and rejects every game state whose version   *)
(* differs from save_version or that lacks game_data, metadata,            *)
(* game_data.current_step or game_data.narrative_points.                   *)
(***************************************************************************)
C21_Lacking(game_state) ==
    \/ ~IsObject(game_state)
    \/ "game_data" \notin DOMAIN game_state
    \/ "metadata" \notin DOMAIN game_state
    \/ ~IsObject(game_state.game_data)
    \/ "current_step" \notin DOMAIN game_state.game_data
    \/ "narrative_points" \notin DOMAIN game_state.game_data

\* The version of the state is not the manager's save_version.
C21_VersionDiffers(game_state) ==
    IsObject(game_state) /\ DictGet(game_state, "version", "0.0") /= save_version

\* C21: the verdict on a state loaded from this manager's own export is
\* True, and a state of another version or with a required part missing
\* is not accepted: the verdict is False or the validation raises.
C21_ValidateVerdict ==
    last.op = "validate_save_compatibility"
    => /\ last.arg \in OwnSave => (~last.raised /\ last.ret[1] = TRUE)
       /\ (C21_Lacking(last.arg) \/ C21_VersionDiffers(last.arg))
          => (last.raised \/ last.ret[1] = FALSE)

(***************************************************************************)
(* C26.  When apply_game_state returns False the orchestrator's            *)
(* current_step, narrative_points, cbx_total, scene_history,               *)
(* character_arcs, narrative_threads and user_state are all unchanged: a   *)
(* failed import never leaves the game partially restored.                 *)
(***************************************************************************)
C26_Step ==
    (last'.op = "apply_game_state" /\ last'.ret = FALSE)
    => /\ SavedFields' = SavedFields
       /\ user_state' = user_state

\* C26: a step in which apply_game_state returns False changes none of the
\* seven fields.
C26_FailedApplyChangesNothing == [][C26_Step]_vars

(***************************************************************************)
(* C25.  The orchestrator's narrative_points total, starting at 0, is      *)
(* never negative after any sequence of input-processing calls, whatever   *)
(* point values the resolution result or the parsed model response         *)
(* carries; it decreases only by a successful spend in                     *)
(* _process_narrative_points, which deducts the cost only when cost <=     *)
(* current total, and a rejected spend leaves it unchanged.                *)
(***************************************************************************)
C25_InputProcessing ==
    {"process_revolutionary_input", "process_advanced_input",
     "_process_narrative_points", "_process_k2_mega_task"}

\* A step of an input-processing call keeps a total that is not negative
\* so, lowers it only by a successful spend of no more than the total, and
\* leaves it as it was when the spend is rejected.
C25_Step ==
    last'.op \in C25_InputProcessing
    => /\ narrative_points >= 0 => narrative_points' >= 0
       /\ narrative_points' < narrative_points
          => /\ last'.op = "_process_narrative_points"
             /\ last'.ret.error = None
             /\ last'.ret.narrative_points_spent <= narrative_points
             /\ narrative_points' = narrative_points - last'.ret.narrative_points_spent
       /\ (last'.op = "_process_narrative_points" /\ last'.ret.error /= None)
          => narrative_points' = narrative_points

C27_ClockBookkeeping ==
    /\ system_status.total_clocks_created =
           Cardinality(DOMAIN active_clocks) + Cardinality(DOMAIN completed_clocks)
    /\ system_status.total_clocks_completed = Cardinality(DOMAIN completed_clocks)
    /\ DOMAIN active_clocks \cap DOMAIN completed_clocks = {}

(***************************************************************************)
(* C28.  For clocks created with segments >= 1 and filled with             *)
(* segments_filled >= 1, every clock in active_clocks always has           *)
(* 0 <= filled_segments < segments: the fill that brings filled_segments   *)
(* to segments (capped, never above) moves the clock to completed_clocks   *)
(* and returns COMPLETE_FILL, every other fill of an active clock returns  *)
(* PARTIAL_FILL, and a fill of a clock that is not active changes no       *)
(* state.                                                                  *)
(***************************************************************************)
C28_ActiveInRange ==
    \A clock_id \in DOMAIN active_clocks :
        /\ 0 <= active_clocks[clock_id].filled_segments
        /\ active_clocks[clock_id].filled_segments < active_clocks[clock_id].segments

C28_Step ==
    \A clock_id \in ClockIdInputs, segments_filled \in SegmentsFilledInputs :
        (last'.op = "fill_clock_segment" /\ last'.arg = <<clock_id, segments_filled>>)
        => IF clock_id \notin DOMAIN active_clocks
           THEN UNCHANGED clocks
           ELSE IF active_clocks[clock_id].filled_segments + segments_filled
                       >= active_clocks[clock_id].segments
           THEN /\ last'.ret = COMPLETE_FILL
                /\ clock_id \notin DOMAIN active_clocks'
                /\ clock_id \in DOMAIN completed_clocks'
                /\ completed_clocks'[clock_id].filled_segments =
                       active_clocks[clock_id].segments
           ELSE /\ last'.ret = PARTIAL_FILL
                /\ clock_id \in DOMAIN active_clocks'
                /\ active_clocks'[clock_id].filled_segments =
                       active_clocks[clock_id].filled_segments + segments_filled

\* C28: an active clock is never full; the fill that reaches its size moves
\* it to the completed clocks at exactly that size and returns COMPLETE_FILL,
\* any other fill of an active clock returns PARTIAL_FILL, and a fill of a
\* clock that is not active changes nothing.
C28_FillClock == []C28_ActiveInRange /\ [][C28_Step]_vars

\* A fill of 2 completed a clock of 3 segments that stood at 2, while
\* another clock is active and partly filled.
C28_Witness ==
    /\ last.op = "fill_clock_segment"
    /\ last.ret = COMPLETE_FILL
    /\ last.arg[2] = 2
    /\ \E clock_id \in DOMAIN completed_clocks :
           /\ completed_clocks[clock_id].segments = 3
           /\ completed_clocks[clock_id].filled_segments = 3
           /\ Len(completed_clocks[clock_id].opportunities_generated) = 2
    /\ \E clock_id \in DOMAIN active_clocks :
           active_clocks[clock_id].filled_segments >= 1

====
